---- MODULE Spec2Model ----
(***************************************************************************)
(* A model of the crawl engine of file-brain:                              *)
(*   - DedupQueue            services/crawler/queue.py                     *)
(*   - CrawlJobManager       services/crawler/manager.py                   *)
(*   - FileIndexer           services/crawler/indexer.py                   *)
(* Each asyncio task is a process; a step of the model is what a task      *)
(* does between two points where it can be suspended.                      *)
(***************************************************************************)
EXTENDS Integers, Sequences, FiniteSets, TLC

(***************************************************************************)
(* Bounds of the model.                                                    *)
(***************************************************************************)
NumKeys == 2
NumConsumers == 2
MaxPuts == 5
MaxCrawls == 2
MaxMonitor == 1
NumWatchPaths == 1
NumContents == 2
MaxChunks == 2
MaxIndexCalls == 3

WorkerPool == 1 + 1

\* manager.py line 39: one persistent indexing task per manager
NumWorkers == 1

\* manager.py line 233: the persisted state is refreshed when files_indexed % 20 == 0
DbUpdateEvery == 20

Keys == 1..NumKeys
Consumers == 1..NumConsumers
Workers == 1..NumWorkers
Contents == 1..NumContents

\* queue.py line 49: a get() that has not taken a key from the FIFO yet
NoKey == 0
NoOp == [file_path |-> NoKey, operation |-> "none", source |-> "none"]
NoFinish == [ended |-> FALSE]

\* indexer.py line 142: _calculate_file_hash returns "" when the file cannot be read
NoHash == 0

\* get_doc_by_path found no document (None)
NoDoc == [present |-> FALSE, file_hash |-> NoHash]

\* no index_file call has been made yet
NoCall ==
    [pc |-> "idle", kind |-> "none", stopped |-> FALSE, over_max |-> FALSE,
     unchanged |-> FALSE, file_hash |-> NoHash, doc_returned |-> FALSE,
     chunk_index |-> 0, chunk_total |-> 0, get_doc_calls |-> 0, extract_calls |-> 0,
     index_calls |-> 0, remove_calls |-> 0, result |-> "none", call_no |-> 0]

VARIABLES
    _queue,      \* DedupQueue._queue: the FIFO of keys (asyncio.Queue, unbounded)
    _items,      \* DedupQueue._items: key -> latest payload of a pending key
    getter,      \* per consumer: the key a get() took at line 49 and has not popped yet
    n_put,       \* history: number of put() calls so far
    pub_order,   \* history: keys in the order in which they became pending
    take_order,  \* history: keys in the order in which get() took them from the FIFO
    burst,       \* history: per key, the payloads put since the key became pending
    returned,    \* history: what each completed get() returned
    _running,    \* CrawlJobManager._running
    _stop_event, \* CrawlJobManager._stop_event
    indexer_stop_event,    \* FileIndexer._stop_event
    discoverer_sync_stop,  \* FileDiscoverer._sync_stop_event
    discoverer_files_found, \* FileDiscoverer.files_found (counted by the scan thread)
    discovery_progress,    \* CrawlJobManager.discovery_progress
    indexing_progress,     \* CrawlJobManager.indexing_progress
    verification_complete, \* CrawlJobManager.verification_progress.is_complete
    crawl_pc,    \* where the _run_crawl task is: "none", "verify", "discover", "wait"
    walk_rest,   \* files the scan thread of discover() has not reached yet
    scan_q,      \* discover(): operations the scan thread has handed to the generator
    w_pc,        \* per worker, where _process_queue is: "get", "pop", "index"
    w_key,       \* per worker, the key its get() took
    w_op,        \* per worker, the operation index_file is processing
    db,          \* the persisted CrawlerState row
    n_crawls,    \* history: number of crawls started
    n_mon,       \* history: number of monitor operations published
    n_unchanged, \* history: files skipped as unchanged since the counters were reset
    last_finish, \* history: the state in which the last crawl ended
    ix,          \* FileIndexer: the index_file call in progress, with the calls it made
    disk,        \* the file on disk the operation names
    index,       \* the search index: chunk 0 of the document stored for that file
    service_state, \* ServiceManager: the state registered for each service
    boot,        \* process start: the persisted flags read, and what the start did
    race_pc,     \* the delete-after-create scenario: which of its steps have happened
    settings,    \* the settings the crawl can read
    watch_config, \* the enabled watch paths: included roots and excluded subtrees
    fs,          \* the paths that exist on disk
    collection,  \* the search index as the verifier pages through it: file paths in order
    ver,         \* IndexVerifier: the verify_index call, its progress and its effects
    extraction,  \* ContentExtractor.extract: the strategies, and the call in progress
    tika,        \* TikaExtractionStrategy.extract: the detection and the attempts made
    discovery,   \* FileDiscoverer.discover: the tree walked and the operations emitted
    event,       \* the monitor: the file event handled and the operations produced
    ts_init,     \* TypesenseClient.initialize_collection: the attempts and their end
    removal,     \* removals from the index: the request, its outcome and its report
    registry     \* ServiceManager: states, dependencies and health of the services

qvars == <<_queue, _items>>
hvars == <<getter, n_put, pub_order, take_order, burst, returned>>
flags == <<_running, _stop_event, indexer_stop_event, discoverer_sync_stop>>
counters == <<discoverer_files_found, discovery_progress, indexing_progress>>
wvars == <<w_pc, w_key, w_op>>
ivars == <<ix, disk, index>>
bvars == <<service_state, boot>>
vvars == <<settings, watch_config, fs, collection, ver>>
xvars == <<extraction, tika, discovery, event, ts_init, removal, registry>>
ovars == <<bvars, race_pc, vvars, xvars>>
mvars ==
    <<_running, _stop_event, indexer_stop_event, discoverer_sync_stop, counters,
      verification_complete, crawl_pc, walk_rest, scan_q, wvars, db, n_crawls, n_mon,
      n_unchanged, last_finish>>
cvars == <<_running, _stop_event, indexer_stop_event, discoverer_sync_stop,
           discoverer_files_found, discovery_progress, indexing_progress,
           verification_complete, crawl_pc, walk_rest, scan_q, w_pc, w_key, w_op,
           db, n_crawls, n_mon, n_unchanged, last_finish, ix, disk, index, ovars>>
vars == <<_queue, _items, getter, n_put, pub_order, take_order, burst, returned,
          _running, _stop_event, indexer_stop_event, discoverer_sync_stop,
          discoverer_files_found, discovery_progress, indexing_progress,
          verification_complete, crawl_pc, walk_rest, scan_q, w_pc, w_key, w_op,
          db, n_crawls, n_mon, n_unchanged, last_finish, ix, disk, index,
          service_state, boot, race_pc, settings, watch_config, fs, collection, ver,
          extraction, tika, discovery, event, ts_init, removal, registry>>

(***************************************************************************)
(* Helpers.                                                                *)
(***************************************************************************)
Max2(a, b) == IF a >= b THEN a ELSE b

Min2(a, b) == IF a <= b THEN a ELSE b

RECURSIVE CountIn(_, _)
CountIn(s, k) ==
    IF s = <<>> THEN 0
    ELSE (IF Head(s) = k THEN 1 ELSE 0) + CountIn(Tail(s), k)

RECURSIVE SumLen(_, _)
SumLen(f, ks) ==
    IF ks = {} THEN 0
    ELSE LET k == CHOOSE x \in ks : TRUE
         IN Len(f[k]) + SumLen(f, ks \ {k})

RECURSIVE SumField(_)
SumField(s) ==
    IF s = <<>> THEN 0 ELSE Head(s).n + SumField(Tail(s))

IsPrefix(s, t) == Len(s) <= Len(t) /\ SubSeq(t, 1, Len(s)) = s

(***************************************************************************)
(* DedupQueue.  put() runs its body under the lock; the FIFO is unbounded, *)
(* so `await self._queue.put(key)` never suspends and the body is one      *)
(* step.  get() awaits the FIFO (line 49) and then the lock (line 51):     *)
(* two steps, Take and Pop.                                               *)
(***************************************************************************)
\* put, line 40: is_new = key not in self._items
IsNew(items, key) == key \notin DOMAIN items

ItemsAfterPutKeepFirst(items, key, item) ==
    [x \in DOMAIN items \cup {key} |-> IF x \in DOMAIN items THEN items[x] ELSE item]

\* put, line 41: self._items[key] = item
ItemsAfterPut(items, key, item) ==
    [x \in DOMAIN items \cup {key} |-> IF x = key THEN item ELSE items[x]]

QueueAfterPutAlways(queue, items, key) == Append(queue, key)

QueueAfterPutMoveBack(queue, items, key) ==
    Append(SelectSeq(queue, LAMBDA x : x # key), key)

\* put, lines 42-43: if is_new: await self._queue.put(key)
QueueAfterPut(queue, items, key) ==
    IF IsNew(items, key) THEN Append(queue, key) ELSE queue

\* get, line 49: key = await self._queue.get()
TakeReady(queue) == queue # <<>>

TakenKey(queue) == Head(queue)

QueueAfterTake(queue) == Tail(queue)

\* get, line 55: item = self._items.pop(key); a missing key raises KeyError,
\* which is returned here as dflt
PoppedItem(items, key, dflt) == IF key \in DOMAIN items THEN items[key] ELSE dflt

ItemsAfterPop(items, key) == [x \in DOMAIN items \ {key} |-> items[x]]

\* qsize, line 62: len(self._items)
qsize(items) == Cardinality(DOMAIN items)

(***************************************************************************)
(* CrawlJobManager: progress records and the status snapshot.              *)
(* int((a / b) * 100) is modelled as (a * 100) \div b; the two agree for   *)
(* all counters the model reaches.                                         *)
(***************************************************************************)
\* DiscoveryProgress(total_paths=...): the other counters start at 0
NewDiscoveryProgress(total) ==
    [total_paths |-> total, processed_paths |-> 0, files_found |-> 0, files_skipped |-> 0]

\* IndexingProgress(...): all counters start at 0
NewIndexingProgress == [files_to_index |-> 0, files_indexed |-> 0, files_failed |-> 0]

\* the CrawlerState row before any crawl
NewCrawlerState ==
    [crawl_job_running |-> FALSE, discovery_progress |-> 0, indexing_progress |-> 0,
     files_discovered |-> 0, files_indexed |-> 0]

Percent(a, b) == (a * 100) \div b

\* _get_live_status, lines 117-120
DiscoveryPct(dp) ==
    IF dp.total_paths > 0
    THEN Min2(Percent(dp.processed_paths, dp.total_paths), 100)
    ELSE 0

TotalKnownDiscoveredOnly(dff, dp, ip) == Max2(dff, dp.files_found)

\* _get_live_status, lines 135-140
TotalKnown(dff, dp, ip) ==
    Max2(Max2(dff, dp.files_found), Max2(ip.files_to_index, ip.files_indexed))

IndexingPctOfDiscovered(dff, dp, ip) ==
    IF TotalKnownDiscoveredOnly(dff, dp, ip) > 0
    THEN Min2(Percent(ip.files_indexed, TotalKnownDiscoveredOnly(dff, dp, ip)), 100)
    ELSE 0

\* _get_live_status, lines 142-145
IndexingPct(dff, dp, ip) ==
    IF TotalKnown(dff, dp, ip) > 0
    THEN Min2(Percent(ip.files_indexed, TotalKnown(dff, dp, ip)), 100)
    ELSE 0

\* _get_live_status, lines 147-152
CurrentPhase(dff, dp, ip, verc) ==
    IF IndexingPct(dff, dp, ip) >= 100 /\ DiscoveryPct(dp) >= 100 /\ verc THEN "idle"
    ELSE IF ~verc THEN "verifying"
    ELSE IF DiscoveryPct(dp) < 100 THEN "discovering"
    ELSE "indexing"

\* _get_live_status, lines 154-170
LiveStatusOf(run, dff, dp, ip, verc) ==
    [running |-> run,
     current_phase |-> CurrentPhase(dff, dp, ip, verc),
     discovery_progress |-> DiscoveryPct(dp),
     indexing_progress |-> IndexingPct(dff, dp, ip),
     files_discovered |-> TotalKnown(dff, dp, ip),
     files_indexed |-> ip.files_indexed,
     files_skipped |-> dp.files_skipped,
     queue_size |-> Max2(0, TotalKnown(dff, dp, ip) - ip.files_indexed)]

\* get_status when no crawl is running, lines 83-110
IdleStatusOf(state) ==
    LET files_indexed == state.files_indexed
        files_discovered == Max2(state.files_discovered, files_indexed)
        indexing_pct == IF files_discovered > 0
                        THEN Percent(files_indexed, files_discovered) ELSE 0
    IN [running |-> FALSE,
        current_phase |-> "idle",
        discovery_progress |-> Min2(state.discovery_progress, 100),
        indexing_progress |-> Min2(indexing_pct, 100),
        files_discovered |-> files_discovered,
        files_indexed |-> files_indexed,
        files_skipped |-> 0,
        queue_size |-> 0]

\* services/crawl_job_manager.py, get_status, lines 240-270 and 300-313: the
\* snapshot of the manager built on a plain asyncio.Queue
LegacyStatusOf(dp, ip, queue_size) ==
    LET discovered == dp.files_found
        completed == ip.files_indexed + ip.files_failed
        total_known_ops == Max2(discovered, completed + queue_size)
        pct == IF total_known_ops = 0 THEN 0
               ELSE Max2(0, Min2(Percent(completed, total_known_ops), 100))
    IN [running |-> TRUE,
        indexing_progress |-> IF queue_size > 0 /\ pct >= 100 THEN 99 ELSE pct,
        files_discovered |-> discovered,
        files_indexed |-> ip.files_indexed,
        files_skipped |-> dp.files_skipped,
        queue_size |-> queue_size]

\* get_status, lines 79-80
StatusOf(run, dff, dp, ip, verc, state) ==
    IF run THEN LiveStatusOf(run, dff, dp, ip, verc) ELSE IdleStatusOf(state)

LiveStatus ==
    LiveStatusOf(_running, discoverer_files_found, discovery_progress,
                 indexing_progress, verification_complete)

GetStatus ==
    StatusOf(_running, discoverer_files_found, discovery_progress,
             indexing_progress, verification_complete, db)

\* _update_db_progress, lines 308-317
DbAfterProgress(state, status) ==
    [state EXCEPT !.discovery_progress = status.discovery_progress,
                  !.indexing_progress = status.indexing_progress,
                  !.files_discovered = status.files_discovered,
                  !.files_indexed = status.files_indexed]

\* _process_queue, lines 233-234
DbAfterWorkerStep(state, run, dff, dp, ip, verc) ==
    IF ip.files_indexed % DbUpdateEvery = 0
    THEN DbAfterProgress(state, StatusOf(run, dff, dp, ip, verc, state))
    ELSE state

\* _run_crawl, lines 296-306
DbAfterFinish(state, status) ==
    [DbAfterProgress(state, status) EXCEPT !.crawl_job_running = FALSE]

\* start_crawl, lines 191-201
DbAfterStart(state) ==
    [state EXCEPT !.crawl_job_running = TRUE, !.discovery_progress = 0,
                  !.indexing_progress = 0, !.files_discovered = 0, !.files_indexed = 0]

\* _run_crawl, lines 280-283: the test that ends the wait for the indexer
CrawlDone(items, dp, ip) ==
    qsize(items) = 0 /\ ip.files_indexed + ip.files_failed >= dp.files_found

\* the operations discovery and the monitor publish
CrawlOp(k) == [file_path |-> k, operation |-> "create", source |-> "crawl"]

WatchOp(k) == [file_path |-> k, operation |-> "edit", source |-> "watch"]

\* the files a walk of the watch paths meets, in order: files 1..n, and with
\* overlapping watch paths file 1 once more
Pref(n) == [i \in 1..n |-> i]

Walks == {Pref(n) : n \in 0..NumKeys} \cup {Pref(n) \o <<1>> : n \in 1..NumKeys}

Outcomes == {"indexed", "unchanged", "failed", "raised"}

\* CrawlJobManager.__init__, lines 28-45
ManagerStateInit ==
    /\ _running = FALSE
    /\ _stop_event = FALSE
    /\ indexer_stop_event = FALSE
    /\ discoverer_sync_stop = FALSE
    /\ discoverer_files_found = 0
    /\ discovery_progress = NewDiscoveryProgress(0)
    /\ indexing_progress = NewIndexingProgress
    /\ verification_complete = FALSE
    /\ crawl_pc = "none"
    /\ walk_rest = <<>>
    /\ scan_q = <<>>
    /\ w_pc = [w \in Workers |-> "get"]
    /\ w_key = [w \in Workers |-> NoKey]
    /\ w_op = [w \in Workers |-> NoOp]
    /\ n_crawls = 0
    /\ n_mon = 0
    /\ n_unchanged = 0
    /\ last_finish = NoFinish

\* CrawlJobManager.__init__ on a fresh CrawlerState row
ManagerInit == ManagerStateInit /\ db = NewCrawlerState

\* DedupQueue.__init__, lines 14-17
DedupInit ==
    /\ _queue = <<>>
    /\ _items = << >>

\* FileIndexer.__init__, lines 23-26, with one readable file that is not indexed
IndexerInit ==
    /\ ix = NoCall
    /\ disk = [accessible |-> TRUE, content |-> 1]
    /\ index = NoDoc

HistoryInit ==
    /\ getter = [c \in Consumers |-> NoKey]
    /\ n_put = 0
    /\ pub_order = <<>>
    /\ take_order = <<>>
    /\ burst = [k \in Keys |-> <<>>]
    /\ returned = <<>>

\* ServiceManager, service_manager.py lines 17-23: the registered services the
\* crawl depends on, and ServiceState
Services == {"typesense", "crawl_manager"}

ServiceStates == {"not_started", "initializing", "ready", "failed", "disabled"}

NoBoot ==
    [pc |-> "idle", enabled |-> 0, monitoring_active |-> FALSE, previous_running |-> FALSE,
     watch_paths |-> 0, monitor_started |-> FALSE, resume |-> "no", requests |-> 0]

\* a process whose start is over and whose services are ready
BootIdle ==
    /\ service_state = [s \in Services |-> "ready"]
    /\ boot = NoBoot

RaceIdle == race_pc = "idle"

\* IndexVerifier.__init__, verification.py lines 34-37, with what the model
\* records of a run: the watch configuration it read, the pages it fetched, the
\* paths it asked to remove, and whether anything disturbed the runs so far
NoRun ==
    [pc |-> "idle", run |-> 0, stop |-> FALSE,
     cfg |-> [included |-> {}, excluded |-> {}],
     total_count |-> 0, offset |-> 0, processed_count |-> 0, orphaned_count |-> 0,
     is_complete |-> FALSE, fetches |-> 0, removed |-> {}, disturbed |-> FALSE]

\* config.py lines 46-49: verify_index_on_crawl defaults to True; no index, no
\* watch path and no verification run
VerifierIdle ==
    /\ settings = [verify_index_on_crawl |-> TRUE]
    /\ watch_config = [included |-> {}, excluded |-> {}]
    /\ fs = {}
    /\ collection = <<>>
    /\ ver = NoRun

\* no call of the extraction chain, of the Tika strategy, of the discoverer, of
\* the event handler, of initialize_collection or of a removal is in progress,
\* and the registry is not looked at
Idle == [pc |-> "idle"]

ExtraIdle ==
    /\ extraction = Idle
    /\ tika = Idle
    /\ discovery = Idle
    /\ event = Idle
    /\ ts_init = Idle
    /\ removal = Idle
    /\ registry = Idle

OtherInit == BootIdle /\ RaceIdle /\ VerifierIdle /\ ExtraIdle

(***************************************************************************)
(* The queue alone, under any number of producers and consumers.           *)
(***************************************************************************)
\* queue.py line 55: self._items.pop(key) raises KeyError when the key is gone
KeyError == 0

QueueInit == DedupInit /\ HistoryInit /\ ManagerInit /\ IndexerInit /\ OtherInit

\* A producer calls put(k, item); the payload is the serial number of the put.
Put(k) ==
    /\ n_put < MaxPuts
    /\ n_put' = n_put + 1
    /\ _items' = ItemsAfterPut(_items, k, n_put + 1)
    /\ _queue' = QueueAfterPut(_queue, _items, k)
    /\ pub_order' = IF IsNew(_items, k) THEN Append(pub_order, k) ELSE pub_order
    /\ burst' = [burst EXCEPT ![k] = Append(@, n_put + 1)]
    /\ UNCHANGED <<getter, take_order, returned, cvars>>

\* A consumer's get() takes the next key from the FIFO.
Take(c) ==
    /\ getter[c] = NoKey
    /\ TakeReady(_queue)
    /\ getter' = [getter EXCEPT ![c] = TakenKey(_queue)]
    /\ _queue' = QueueAfterTake(_queue)
    /\ take_order' = Append(take_order, TakenKey(_queue))
    /\ UNCHANGED <<_items, n_put, pub_order, burst, returned, cvars>>

\* The consumer's get() pops the payload under the lock and returns it.
Pop(c) ==
    /\ getter[c] # NoKey
    /\ LET k == getter[c]
           b == burst[k]
       IN /\ returned' = Append(returned,
                [key |-> k, item |-> PoppedItem(_items, k, KeyError),
                 n |-> Len(b), last |-> IF b = <<>> THEN KeyError ELSE b[Len(b)]])
          /\ _items' = ItemsAfterPop(_items, k)
          /\ burst' = [burst EXCEPT ![k] = <<>>]
    /\ getter' = [getter EXCEPT ![c] = NoKey]
    /\ UNCHANGED <<_queue, n_put, pub_order, take_order, cvars>>

QueueNext ==
    \/ \E k \in Keys : Put(k)
    \/ \E c \in Consumers : Take(c)
    \/ \E c \in Consumers : Pop(c)

SpecQueue == QueueInit /\ [][QueueNext]_vars

(***************************************************************************)
(* C1: at all times, every key occurs in the FIFO of the dedup queue at    *)
(* most once (0 or 1 pending entries per key).                             *)
(***************************************************************************)
C1_AtMostOnePending == \A k \in Keys : CountIn(_queue, k) <= 1

\* A key is pending, has been put again while pending, and is still once in the FIFO.
C1_Witness ==
    \E k \in Keys : CountIn(_queue, k) = 1 /\ Len(burst[k]) >= 2 /\ Len(_queue) >= 2

(***************************************************************************)
(* C2: get() takes keys in the order in which they became pending: the     *)
(* sequence of keys taken is a prefix of the sequence of first publishes;  *)
(* a put of a key that is already pending does not move it.                *)
(***************************************************************************)
C2_FirstPublishOrder == IsPrefix(take_order, pub_order)

\* Key a became pending before key b, a was put again after b, and both were taken.
C2_Witness ==
    /\ Len(take_order) >= 2
    /\ take_order[1] # take_order[2]
    /\ \E r \in 1..Len(returned) :
          /\ returned[r].key = take_order[1]
          /\ returned[r].n >= 2
          /\ returned[r].item > 2

(***************************************************************************)
(* C3: a burst of n >= 2 puts of one key collapses into one get(): every   *)
(* get() returns the payload of the last put of its key, every put is      *)
(* accounted for by exactly one get() (none lost, none delivered twice),   *)
(* and qsize() counts every pending key once.                              *)
(***************************************************************************)
C3_BurstCollapses ==
    /\ \A r \in 1..Len(returned) :
          /\ returned[r].n >= 1
          /\ returned[r].item = returned[r].last
    /\ SumField(returned) + SumLen(burst, Keys) = n_put
    /\ qsize(_items) = Cardinality({k \in Keys : burst[k] # <<>>})
    /\ \A k \in Keys : burst[k] # <<>> => _items[k] = burst[k][Len(burst[k])]

\* A get() has returned for a key that was put at least twice while pending.
C3_Witness ==
    \E r \in 1..Len(returned) : returned[r].n >= 2 /\ returned[r].item = returned[r].last

(***************************************************************************)
(* The crawl manager with its worker, the discoverer and the monitor.      *)
(***************************************************************************)
CrawlInit == DedupInit /\ HistoryInit /\ ManagerInit /\ IndexerInit /\ OtherInit

InDiscoveryOrVerification(pc) == pc \in {"verify", "discover"}

\* _run_crawl, lines 259-268: the task is in its discovery phase, which it
\* enters after the verification phase (lines 246-257)
InDiscovery(pc) == pc = "discover"

\* start_crawl, lines 172-205 (the call while a crawl runs returns at line 175),
\* on a manager that holds n watch paths
StartCrawlWith(n) ==
    /\ ~_running
    /\ n_crawls < MaxCrawls
    /\ n_crawls' = n_crawls + 1
    /\ _running' = TRUE
    /\ _stop_event' = FALSE
    /\ discoverer_files_found' = 0
    /\ discovery_progress' = NewDiscoveryProgress(n)
    /\ indexing_progress' = NewIndexingProgress
    /\ verification_complete' = FALSE
    /\ db' = DbAfterStart(db)
    /\ crawl_pc' = "verify"
    /\ n_unchanged' = 0
    /\ last_finish' = NoFinish
    /\ UNCHANGED <<qvars, hvars, ivars, indexer_stop_event, discoverer_sync_stop,
                   walk_rest, scan_q, wvars, n_mon>>

StartCrawlCall == StartCrawlWith(NumWatchPaths)

\* start_crawl called while the process is up and no other component acts
StartCrawl == StartCrawlCall /\ UNCHANGED ovars

\* stop_crawl, lines 319-326
StopCrawl ==
    /\ _running
    /\ _stop_event' = TRUE
    /\ discoverer_sync_stop' = TRUE
    /\ indexer_stop_event' = TRUE
    /\ UNCHANGED <<qvars, hvars, ivars, ovars, _running, counters, verification_complete, crawl_pc,
                   walk_rest, scan_q, wvars, db, n_crawls, n_mon, n_unchanged, last_finish>>

\* _run_crawl, lines 246-257: the verification phase ends; a stop seen here
\* ends the task at line 257; otherwise discover() starts its scan thread
\* on the files now under the watch paths
VerifyDone(walk) ==
    /\ crawl_pc = "verify"
    /\ verification_complete' = TRUE
    /\ IF _stop_event
       THEN /\ _running' = FALSE
            /\ crawl_pc' = "none"
            /\ UNCHANGED <<walk_rest, scan_q>>
       ELSE /\ crawl_pc' = "discover"
            /\ walk_rest' = walk
            /\ scan_q' = <<>>
            /\ UNCHANGED _running
    /\ UNCHANGED <<qvars, hvars, ivars, ovars, _stop_event, indexer_stop_event, discoverer_sync_stop,
                   counters, wvars, db, n_crawls, n_mon, n_unchanged, last_finish>>

\* discoverer.py, lines 78-97: the scan thread stats the next file, counts it
\* and hands its operation to the generator
ScanFile ==
    /\ InDiscovery(crawl_pc)
    /\ ~discoverer_sync_stop
    /\ walk_rest # <<>>
    /\ discoverer_files_found' = discoverer_files_found + 1
    /\ scan_q' = Append(scan_q, Head(walk_rest))
    /\ walk_rest' = Tail(walk_rest)
    /\ UNCHANGED <<qvars, hvars, ivars, ovars, flags, discovery_progress, indexing_progress,
                   verification_complete, crawl_pc, wvars, db, n_crawls, n_mon,
                   n_unchanged, last_finish>>

\* discoverer.py, lines 54-56, 63-64, 79-80, 102-104: the scan thread is through
ScanFinished == walk_rest = <<>> \/ discoverer_sync_stop

\* _run_crawl, lines 291-306: the finally block
Finish(dp) ==
    LET final_status == LiveStatusOf(_running, discoverer_files_found, dp,
                                     indexing_progress, verification_complete)
    IN /\ _running' = FALSE
       /\ db' = DbAfterFinish(db, final_status)
       /\ crawl_pc' = "none"
       /\ last_finish' = [ended |-> TRUE,
                          status |-> final_status,
                          stopped |-> _stop_event,
                          files_failed |-> indexing_progress.files_failed,
                          pending |-> qsize(_items),
                          in_flight |-> Cardinality({w \in Workers : w_pc[w] = "index"}),
                          undiscovered |-> Len(scan_q),
                          unchanged |-> n_unchanged,
                          indexed_or_unchanged |-> indexing_progress.files_indexed]

\* _run_crawl, lines 274-287: one evaluation of the wait loop
WaitOrFinish(dp) ==
    IF (~_running \/ _stop_event) \/ CrawlDone(_items, dp, indexing_progress)
    THEN Finish(dp)
    ELSE /\ crawl_pc' = "wait"
         /\ UNCHANGED <<_running, db, last_finish>>

\* _run_crawl, lines 270-287: after the discovery loop
AfterDiscovery ==
    LET dp == [discovery_progress EXCEPT !.processed_paths = discovery_progress.total_paths]
    IN /\ discovery_progress' = dp
       /\ WaitOrFinish(dp)

\* _run_crawl, lines 263-268: one turn of the discovery loop
DiscoverStep ==
    /\ InDiscovery(crawl_pc)
    /\ \/ /\ scan_q # <<>>
          /\ ~_stop_event
          /\ discovery_progress' =
                [discovery_progress EXCEPT !.files_found = @ + 1]
          /\ _items' = ItemsAfterPut(_items, Head(scan_q), CrawlOp(Head(scan_q)))
          /\ _queue' = QueueAfterPut(_queue, _items, Head(scan_q))
          /\ scan_q' = Tail(scan_q)
          /\ UNCHANGED <<_running, crawl_pc, db, last_finish>>
       \/ /\ scan_q # <<>>
          /\ _stop_event
          /\ AfterDiscovery
          /\ UNCHANGED <<qvars, scan_q>>
       \/ /\ scan_q = <<>>
          /\ ScanFinished
          /\ AfterDiscovery
          /\ UNCHANGED <<qvars, scan_q>>
    /\ UNCHANGED <<hvars, ivars, ovars, _stop_event, indexer_stop_event, discoverer_sync_stop,
                   discoverer_files_found, indexing_progress, verification_complete,
                   walk_rest, wvars, n_crawls, n_mon, n_unchanged>>

\* _run_crawl, lines 274-287: the task wakes from sleep(1) and tests again
CrawlPoll ==
    /\ crawl_pc = "wait"
    /\ WaitOrFinish(discovery_progress)
    /\ UNCHANGED <<qvars, hvars, ivars, ovars, _stop_event, indexer_stop_event, discoverer_sync_stop,
                   counters, verification_complete, walk_rest, scan_q, wvars,
                   n_crawls, n_mon, n_unchanged>>

\* the monitor publishes an operation for a changed file into the shared queue
MonitorPut(k) ==
    /\ n_mon < MaxMonitor
    /\ n_mon' = n_mon + 1
    /\ _items' = ItemsAfterPut(_items, k, WatchOp(k))
    /\ _queue' = QueueAfterPut(_queue, _items, k)
    /\ UNCHANGED <<hvars, ivars, ovars, flags, counters, verification_complete, crawl_pc, walk_rest,
                   scan_q, wvars, db, n_crawls, n_unchanged, last_finish>>

\* _process_queue, line 214 (queue.py line 49)
WorkerTake(w) ==
    /\ w_pc[w] = "get"
    /\ TakeReady(_queue)
    /\ w_key' = [w_key EXCEPT ![w] = TakenKey(_queue)]
    /\ _queue' = QueueAfterTake(_queue)
    /\ w_pc' = [w_pc EXCEPT ![w] = "pop"]
    /\ UNCHANGED <<_items, hvars, ivars, ovars, flags, counters, verification_complete, crawl_pc,
                   walk_rest, scan_q, w_op, db, n_crawls, n_mon, n_unchanged, last_finish>>

\* _process_queue, lines 214-223 (queue.py lines 51-56): get() returns the
\* operation, it is counted, and index_file starts; a stopped indexer
\* (indexer.py lines 36-37) returns False at once, lines 228-234
WorkerPop(w) ==
    /\ w_pc[w] = "pop"
    /\ _items' = ItemsAfterPop(_items, w_key[w])
    /\ w_key' = [w_key EXCEPT ![w] = NoKey]
    /\ LET op == PoppedItem(_items, w_key[w], NoOp)
           ip1 == [indexing_progress EXCEPT !.files_to_index = @ + 1]
           ip2 == [ip1 EXCEPT !.files_failed = @ + 1]
       IN IF op = NoOp
          THEN /\ w_pc' = [w_pc EXCEPT ![w] = "get"]
               /\ UNCHANGED <<indexing_progress, w_op, db>>
          ELSE IF indexer_stop_event
          THEN /\ indexing_progress' = ip2
               /\ db' = DbAfterWorkerStep(db, _running, discoverer_files_found,
                                          discovery_progress, ip2, verification_complete)
               /\ w_pc' = [w_pc EXCEPT ![w] = "get"]
               /\ UNCHANGED w_op
          ELSE /\ indexing_progress' = ip1
               /\ w_op' = [w_op EXCEPT ![w] = op]
               /\ w_pc' = [w_pc EXCEPT ![w] = "index"]
               /\ UNCHANGED db
    /\ UNCHANGED <<_queue, hvars, ivars, ovars, flags, discoverer_files_found, discovery_progress,
                   verification_complete, crawl_pc, walk_rest, scan_q, n_crawls, n_mon,
                   n_unchanged, last_finish>>

\* _process_queue, lines 223-228 and 239-241: index_file returned True (the
\* file was indexed or skipped as unchanged) or False, or raised
IndexingAfter(ip, outcome) ==
    IF outcome \in {"indexed", "unchanged"} THEN [ip EXCEPT !.files_indexed = @ + 1]
    ELSE IF outcome = "failed" THEN [ip EXCEPT !.files_failed = @ + 1]
    ELSE ip

\* _process_queue, lines 223-241: index_file ends
WorkerFinish(w, outcome) ==
    /\ w_pc[w] = "index"
    /\ w_pc' = [w_pc EXCEPT ![w] = "get"]
    /\ w_op' = [w_op EXCEPT ![w] = NoOp]
    /\ n_unchanged' = IF outcome = "unchanged" THEN n_unchanged + 1 ELSE n_unchanged
    /\ LET ip == IndexingAfter(indexing_progress, outcome)
       IN /\ indexing_progress' = ip
          /\ db' = IF outcome = "raised" THEN db
                   ELSE DbAfterWorkerStep(db, _running, discoverer_files_found,
                                          discovery_progress, ip, verification_complete)
    /\ UNCHANGED <<qvars, hvars, ivars, ovars, flags, discoverer_files_found, discovery_progress,
                   verification_complete, crawl_pc, walk_rest, scan_q, w_key, n_crawls,
                   n_mon, last_finish>>

CrawlNext ==
    \/ StartCrawl
    \/ StopCrawl
    \/ \E walk \in Walks : VerifyDone(walk)
    \/ ScanFile
    \/ DiscoverStep
    \/ CrawlPoll
    \/ \E k \in Keys : MonitorPut(k)
    \/ \E w \in Workers : WorkerTake(w)
    \/ \E w \in Workers : WorkerPop(w)
    \/ \E w \in Workers, outcome \in Outcomes : WorkerFinish(w, outcome)

SpecCrawl == CrawlInit /\ [][CrawlNext]_vars

\* Work that is not finished: an operation pending in the dedup queue, or one
\* a worker has dequeued and index_file has not finished
OutstandingWork ==
    qsize(_items) > 0 \/ \E w \in Workers : w_pc[w] = "index"

C5_PendingMeansBelow100 ==
    _running =>
        /\ LiveStatus.queue_size > 0 => LiveStatus.indexing_progress < 100
        /\ LET legacy == LegacyStatusOf(discovery_progress, indexing_progress,
                                        qsize(_items))
           IN legacy.queue_size > 0 => legacy.indexing_progress < 100

\* A running crawl reports pending work and a progress strictly between 0 and 100.
C5_Witness ==
    /\ _running
    /\ LiveStatus.queue_size > 0
    /\ LiveStatus.indexing_progress > 0
    /\ LiveStatus.indexing_progress < 100

(***************************************************************************)
(* C6: indexing_progress, in the status snapshot and in the persisted      *)
(* CrawlerState, is never 100 while there is outstanding work (an          *)
(* operation pending in the dedup queue or in the hands of a worker).      *)
(* Stated for the runs in which the monitor has published nothing, where   *)
(* it already fails; MonitorPut gives a shorter failing run.               *)
(***************************************************************************)
C6_NoFullProgressWithOutstandingWork ==
    (n_mon = 0 /\ OutstandingWork) =>
        GetStatus.indexing_progress # 100 /\ db.indexing_progress # 100

(***************************************************************************)
(* C7: when a crawl has finished, files_discovered >= files_indexed +      *)
(* files_skipped + files_error in its final status.  Stated for the runs   *)
(* in which the monitor has published nothing, where it already fails.     *)
(***************************************************************************)
C7_DiscoveredCoversProcessed ==
    (n_mon = 0 /\ last_finish.ended) =>
        last_finish.status.files_discovered >=
            last_finish.status.files_indexed + last_finish.status.files_skipped
                + last_finish.files_failed

(***************************************************************************)
(* C9: a crawl (with no monitor operation) in which every processed file   *)
(* was skipped as unchanged ends with files_skipped equal to the number of *)
(* those files and with files_indexed = 0.                                 *)
(***************************************************************************)
C9_UnchangedCountsAsSkipped ==
    (/\ last_finish.ended /\ ~last_finish.stopped
     /\ n_mon = 0
     /\ last_finish.files_failed = 0
     /\ last_finish.indexed_or_unchanged = last_finish.unchanged) =>
        /\ last_finish.status.files_skipped = last_finish.unchanged
        /\ last_finish.status.files_indexed = 0

(***************************************************************************)
(* C10: a crawl that was not stopped ends (running becomes false) only when *)
(* discovery has finished, the dedup queue is empty and no dequeued        *)
(* operation is still being processed.  Stated for the runs in which the   *)
(* monitor has published nothing, where it already fails.                  *)
(***************************************************************************)
C10_CompleteMeansDrained ==
    (n_mon = 0 /\ last_finish.ended /\ ~last_finish.stopped) =>
        /\ last_finish.undiscovered = 0
        /\ last_finish.pending = 0
        /\ last_finish.in_flight = 0

(***************************************************************************)
(* FileIndexer.index_file on one file path.  A step is what index_file     *)
(* does between two awaits; a call to the search engine is counted when it *)
(* is issued.  The file changes only between two calls.                    *)
(***************************************************************************)
OpKinds == {"create", "edit", "delete"}

\* what extract and chunk_text give, lines 67-77: extraction raises, or the
\* content is split into some chunks
Extractions ==
    {[ok |-> FALSE, chunks |-> 0]} \cup {[ok |-> TRUE, chunks |-> n] : n \in 0..MaxChunks}

Files == [accessible : BOOLEAN, content : Contents]

\* the file's content hash is the file_hash stored in chunk 0 of the index
Unchanged == disk.accessible /\ index.present /\ index.file_hash = disk.content

ShouldSkipNever(existing_doc, file_hash) == FALSE

\* indexer.py line 62: existing_doc and existing_doc.get("file_hash") == file_hash
ShouldSkip(existing_doc, file_hash) ==
    existing_doc.present /\ existing_doc.file_hash = file_hash

\* services/typesense_client.py, lines 126-140: the stored document, or None
\* when it is not found or the retrieval fails
GetDocByPath(idx, ok) == IF ok THEN idx ELSE NoDoc

IndexerEnvInit ==
    /\ ix = NoCall
    /\ disk \in Files
    /\ index \in {NoDoc} \cup {[present |-> TRUE, file_hash |-> h] : h \in Contents}

IndexerSpecInit == DedupInit /\ HistoryInit /\ ManagerInit /\ IndexerEnvInit /\ OtherInit

\* FileIndexer.stop, lines 28-30
IndexerStop ==
    /\ ~indexer_stop_event
    /\ indexer_stop_event' = TRUE
    /\ UNCHANGED <<qvars, hvars, ivars, ovars, _running, _stop_event, discoverer_sync_stop,
                   counters, verification_complete, crawl_pc, walk_rest, scan_q, wvars,
                   db, n_crawls, n_mon, n_unchanged, last_finish>>

\* the file is rewritten, removed or made unreadable between two calls
EditFile(d) ==
    /\ ix.pc = "idle"
    /\ d # disk
    /\ disk' = d
    /\ UNCHANGED <<qvars, hvars, ix, index, mvars, ovars>>

\* index_file, lines 32-42, and _handle_create_edit_operation, lines 44-57:
\* up to the first await
IndexFileCall(kind, over) ==
    /\ ix.pc = "idle"
    /\ ix.call_no < MaxIndexCalls
    /\ LET call == [NoCall EXCEPT !.kind = kind, !.over_max = over,
                                  !.stopped = indexer_stop_event,
                                  !.unchanged = Unchanged,
                                  !.call_no = ix.call_no + 1]
       IN ix' = IF indexer_stop_event THEN [call EXCEPT !.result = "false"]
                ELSE IF kind = "delete"
                     THEN [call EXCEPT !.pc = "remove", !.remove_calls = 1]
                ELSE IF ~disk.accessible THEN [call EXCEPT !.result = "false"]
                ELSE IF over THEN [call EXCEPT !.result = "false"]
                ELSE [call EXCEPT !.pc = "hash"]

\* index_file called on its own, for any operation
IndexFile(kind, over) ==
    /\ IndexFileCall(kind, over)
    /\ UNCHANGED <<qvars, hvars, disk, index, mvars, ovars>>

\* lines 57-61 and 130-144: the hash is there; an empty hash ends the call,
\* otherwise get_doc_by_path is called
HashDone(ok) ==
    /\ ix.pc = "hash"
    /\ ix' = IF ok
             THEN [ix EXCEPT !.file_hash = disk.content, !.pc = "get_doc",
                             !.get_doc_calls = @ + 1]
             ELSE [ix EXCEPT !.pc = "idle", !.result = "false"]
    /\ UNCHANGED <<qvars, hvars, disk, index, mvars, ovars>>

\* lines 61-109: get_doc_by_path returns; an unchanged file is skipped,
\* otherwise the file is extracted and chunked and the first upsert is issued
GetDocDone(ok, ex) ==
    /\ ix.pc = "get_doc"
    /\ LET existing_doc == GetDocByPath(index, ok)
           seen == [ix EXCEPT !.doc_returned = existing_doc.present]
       IN ix' = IF ShouldSkip(existing_doc, ix.file_hash)
                THEN [seen EXCEPT !.pc = "idle", !.result = "true"]
                ELSE IF ~ex.ok
                     THEN [seen EXCEPT !.extract_calls = @ + 1, !.pc = "idle",
                                       !.result = "raised"]
                ELSE IF ex.chunks = 0
                     THEN [seen EXCEPT !.extract_calls = @ + 1, !.pc = "idle",
                                       !.result = "true"]
                ELSE [seen EXCEPT !.extract_calls = @ + 1, !.pc = "index",
                                  !.chunk_total = ex.chunks, !.chunk_index = 0,
                                  !.index_calls = @ + 1]
    /\ UNCHANGED <<qvars, hvars, disk, index, mvars, ovars>>

\* lines 82-111: the upsert of one chunk returns or raises; chunk 0 carries
\* the file_hash
IndexChunkDone(ok) ==
    /\ ix.pc = "index"
    /\ IF ~ok
       THEN /\ ix' = [ix EXCEPT !.pc = "idle", !.result = "raised"]
            /\ UNCHANGED index
       ELSE /\ index' = IF ix.chunk_index = 0
                        THEN [present |-> TRUE, file_hash |-> ix.file_hash]
                        ELSE index
            /\ ix' = IF ix.chunk_index + 1 < ix.chunk_total
                     THEN [ix EXCEPT !.chunk_index = @ + 1, !.index_calls = @ + 1]
                     ELSE [ix EXCEPT !.pc = "idle", !.result = "true"]
    /\ UNCHANGED <<qvars, hvars, disk, mvars, ovars>>

\* _handle_delete_operation, lines 113-119
RemoveDone(ok) ==
    /\ ix.pc = "remove"
    /\ IF ok
       THEN /\ index' = NoDoc
            /\ ix' = [ix EXCEPT !.pc = "idle", !.result = "true"]
       ELSE /\ ix' = [ix EXCEPT !.pc = "idle", !.result = "false"]
            /\ UNCHANGED index
    /\ UNCHANGED <<qvars, hvars, disk, mvars, ovars>>

IndexerNext ==
    \/ IndexerStop
    \/ \E d \in Files : EditFile(d)
    \/ \E kind \in OpKinds, over \in BOOLEAN : IndexFile(kind, over)
    \/ \E ok \in BOOLEAN : HashDone(ok)
    \/ \E ok \in BOOLEAN, ex \in Extractions : GetDocDone(ok, ex)
    \/ \E ok \in BOOLEAN : IndexChunkDone(ok)
    \/ \E ok \in BOOLEAN : RemoveDone(ok)

SpecIndexer == IndexerSpecInit /\ [][IndexerNext]_vars

\* an index_file call for a create or edit operation has returned or raised
CreateEditEnded ==
    ix.pc = "idle" /\ ix.result # "none" /\ ix.kind \in {"create", "edit"}

C11_EveryFailureCounted ==
    (n_crawls <= 1 /\ n_mon = 0 /\ \A w \in Workers : w_pc[w] # "index") =>
        indexing_progress.files_to_index =
            indexing_progress.files_indexed + indexing_progress.files_failed

(***************************************************************************)
(* A crawl that is never stopped, with no monitor operation, under fair    *)
(* scheduling: the event loop runs every task that can take a step (the    *)
(* crawl task, the scan thread and the worker), and every awaited call of  *)
(* index_file returns True or False.                                       *)
(***************************************************************************)
Returns == Outcomes \ {"raised"}

FairNext ==
    \/ StartCrawl
    \/ \E walk \in Walks : VerifyDone(walk)
    \/ ScanFile
    \/ DiscoverStep
    \/ CrawlPoll
    \/ \E w \in Workers : WorkerTake(w)
    \/ \E w \in Workers : WorkerPop(w)
    \/ \E w \in Workers, outcome \in Returns : WorkerFinish(w, outcome)

Fairness ==
    /\ WF_vars(\E walk \in Walks : VerifyDone(walk))
    /\ WF_vars(ScanFile)
    /\ WF_vars(DiscoverStep)
    /\ WF_vars(CrawlPoll)
    /\ WF_vars(\E w \in Workers : WorkerTake(w))
    /\ WF_vars(\E w \in Workers : WorkerPop(w))
    /\ WF_vars(\E w \in Workers, outcome \in Returns : WorkerFinish(w, outcome))

SpecCrawlFair == CrawlInit /\ [][FairNext]_vars /\ Fairness

(***************************************************************************)
(* C12: under fair scheduling, a started crawl that is never stopped       *)
(* eventually reaches running = false with crawl_job_running persisted as  *)
(* false.                                                                  *)
(***************************************************************************)
C12_CrawlEventuallyEnds == _running ~> (~_running /\ ~db.crawl_job_running)

(***************************************************************************)
(* C13: once the indexer's stop signal is set (stop_crawl calls            *)
(* FileIndexer.stop), no step starts a hash computation, an extraction or  *)
(* an upsert.                                                              *)
(***************************************************************************)
C13_NoNewWorkAfterStop ==
    [][indexer_stop_event =>
          /\ ix'.pc = "hash" => ix.pc = "hash"
          /\ ix'.extract_calls <= ix.extract_calls
          /\ ix'.index_calls <= ix.index_calls]_vars

(***************************************************************************)
(* Process start: the service registry, the restore of the monitor, the    *)
(* auto-resume of an interrupted crawl and the /start endpoint.            *)
(***************************************************************************)
MaxRequests == 1
MaxEnabledPaths == 2

\* auto_resume_logic, initialization.py line 211
ShouldResumeAlways(watch_paths, previous_running) == watch_paths > 0

ShouldResume(watch_paths, previous_running) == watch_paths > 0 /\ previous_running

\* _restore_monitoring_state, manager.py lines 56-68; when the manager has no
\* watch paths the enabled ones are fetched (lines 59-63)
ShouldRestoreMonitor(monitoring_active, watch_paths, enabled) ==
    monitoring_active /\ (IF watch_paths = 0 THEN enabled ELSE watch_paths) > 0

\* require_service, service_manager.py lines 367-378
is_service_ready(states, name) == states[name] = "ready"

\* background_init, initialization.py lines 56-72, after critical_init: both
\* initialization tasks are created; the CrawlerState row and the enabled watch
\* paths are what the previous process left
StartupInit ==
    /\ DedupInit /\ HistoryInit /\ ManagerStateInit /\ IndexerInit
    /\ RaceIdle /\ VerifierIdle /\ ExtraIdle
    /\ \E r \in BOOLEAN : db = [NewCrawlerState EXCEPT !.crawl_job_running = r]
    /\ service_state = [s \in Services |-> "initializing"]
    /\ \E n \in 0..MaxEnabledPaths, mon \in BOOLEAN :
           boot = [NoBoot EXCEPT !.pc = "init", !.enabled = n, !.monitoring_active = mon]

\* init_typesense, initialization.py lines 90-105
InitTypesense(ok) ==
    /\ service_state["typesense"] = "initializing"
    /\ service_state' = [service_state EXCEPT !["typesense"] = IF ok THEN "ready" ELSE "failed"]
    /\ UNCHANGED <<qvars, hvars, xvars, mvars, ivars, boot, race_pc, vvars>>

\* init_crawl_manager, initialization.py lines 168-196: the enabled watch paths
\* and the previous state are read, the manager is created (manager.py lines
\* 28-48, with _restore_monitoring_state) and the service is set ready
InitCrawlManager ==
    /\ boot.pc = "init"
    /\ boot' = [boot EXCEPT
                   !.pc = IF boot.enabled > 0 THEN "sleep" ELSE "done",
                   !.watch_paths = boot.enabled,
                   !.previous_running = db.crawl_job_running,
                   !.monitor_started =
                       ShouldRestoreMonitor(boot.monitoring_active, boot.enabled, boot.enabled)]
    /\ service_state' = [service_state EXCEPT !["crawl_manager"] = "ready"]
    /\ UNCHANGED <<qvars, hvars, xvars, mvars, ivars, race_pc, vvars>>

\* auto_resume_logic, initialization.py lines 207-220, after its sleep; its
\* watch_paths are the enabled paths read by init_crawl_manager, which
\* get_crawl_job_manager (manager.py lines 401-403) puts on the manager
\* before start_crawl is called
AutoResume ==
    /\ boot.pc = "sleep"
    /\ IF ShouldResume(boot.enabled, boot.previous_running)
       THEN IF _running
            THEN /\ boot' = [boot EXCEPT !.pc = "done", !.resume = "refused",
                                         !.watch_paths = boot.enabled]
                 /\ UNCHANGED mvars
            ELSE /\ StartCrawlWith(boot.enabled)
                 /\ boot' = [boot EXCEPT !.pc = "done", !.resume = "started",
                                         !.watch_paths = boot.enabled]
       ELSE /\ boot' = [boot EXCEPT !.pc = "done"]
            /\ UNCHANGED mvars
    /\ UNCHANGED <<qvars, hvars, xvars, ivars, service_state, race_pc, vvars>>

\* start_crawler, endpoints/crawler.py lines 40-107; valid is the number of
\* enabled watch paths that exist and are directories (lines 72-80).  With a
\* valid path get_crawl_job_manager(watch_paths=valid_paths) puts the valid
\* paths on the manager and on its discoverer (line 87, manager.py lines
\* 401-403), then start_crawl is called (line 88), which returns False at
\* manager.py line 175 while a crawl runs
StartEndpoint(valid) ==
    /\ boot.pc # "idle"
    /\ boot.requests < MaxRequests
    /\ IF /\ is_service_ready(service_state, "crawl_manager")
          /\ is_service_ready(service_state, "typesense")
          /\ valid > 0
       THEN /\ boot' = [boot EXCEPT !.requests = @ + 1, !.watch_paths = valid]
            /\ IF _running THEN UNCHANGED mvars ELSE StartCrawlWith(valid)
       ELSE /\ boot' = [boot EXCEPT !.requests = @ + 1]
            /\ UNCHANGED mvars
    /\ UNCHANGED <<qvars, hvars, xvars, ivars, service_state, race_pc, vvars>>

StartupNext ==
    \/ \E ok \in BOOLEAN : InitTypesense(ok)
    \/ InitCrawlManager
    \/ AutoResume
    \/ \E valid \in 0..boot.enabled : StartEndpoint(valid)
    \/ StopCrawl
    \/ \E walk \in Walks : VerifyDone(walk)

SpecStartup == StartupInit /\ [][StartupNext]_vars

\* C14 as stated: once the start of the process is over, a crawl was resumed if
\* the persisted crawl_job_running was true, the monitor was started if the
\* persisted monitoring_active was true, and with neither flag neither was done
C14_ResumeFollowsFlags ==
    boot.pc = "done" =>
        /\ boot.previous_running => boot.resume # "no"
        /\ boot.monitoring_active => boot.monitor_started
        /\ (~boot.previous_running /\ ~boot.monitoring_active) =>
               (boot.resume = "no" /\ ~boot.monitor_started)

\* C14 amended: with at least one enabled watch path the crawl is resumed when
\* crawl_job_running was persisted true and the monitor is started when
\* monitoring_active was; with neither flag, or with no enabled watch path,
\* neither is started
C14_ResumeNeedsWatchPaths ==
    boot.pc = "done" =>
        /\ (boot.enabled > 0 /\ boot.previous_running) => boot.resume # "no"
        /\ (boot.enabled > 0 /\ boot.monitoring_active) => boot.monitor_started
        /\ (~boot.previous_running /\ ~boot.monitoring_active) =>
               (boot.resume = "no" /\ ~boot.monitor_started)
        /\ boot.enabled = 0 => (boot.resume = "no" /\ ~boot.monitor_started)

C14_Witness ==
    /\ boot.pc = "done"
    /\ boot.previous_running /\ boot.monitoring_active
    /\ boot.resume = "started" /\ boot.monitor_started
    /\ _running /\ crawl_pc = "verify"

\* C15: start_crawl never starts a crawl while the typesense service is not READY
C15_NoStartUnlessSearchReady ==
    [][n_crawls' > n_crawls => is_service_ready(service_state, "typesense")]_vars

(***************************************************************************)
(* Delete after create: discovery publishes a create for a file, the file  *)
(* is deleted on disk, the monitor publishes a delete, and the worker      *)
(* drains the queue through index_file.                                    *)
(***************************************************************************)
RacePath == 1

\* services/watcher.py lines 185-197: the operation built for a deleted file
DeleteOp(k) == [file_path |-> k, operation |-> "delete", source |-> "watch"]

\* _process_queue, lines 223-228 and 239-241: what the worker makes of the end
\* of index_file
OutcomeOf(call) ==
    IF call.result = "true"
    THEN IF call.kind # "delete" /\ call.extract_calls = 0 THEN "unchanged" ELSE "indexed"
    ELSE IF call.result = "false" THEN "failed"
    ELSE "raised"

\* the file exists, readable, with any content, and the index holds no document
\* or the document of an earlier crawl
RaceInit ==
    /\ DedupInit /\ HistoryInit /\ ManagerInit /\ BootIdle /\ VerifierIdle /\ ExtraIdle
    /\ ix = NoCall
    /\ \E c \in Contents : disk = [accessible |-> TRUE, content |-> c]
    /\ index \in {NoDoc} \cup {[present |-> TRUE, file_hash |-> h] : h \in Contents}
    /\ race_pc = "start"

\* _run_crawl, manager.py lines 260-266: discovery publishes create(p)
PublishCreate ==
    /\ race_pc = "start"
    /\ race_pc' = "created"
    /\ _items' = ItemsAfterPut(_items, RacePath, CrawlOp(RacePath))
    /\ _queue' = QueueAfterPut(_queue, _items, RacePath)
    /\ UNCHANGED <<hvars, xvars, ivars, mvars, bvars, vvars>>

\* the file is deleted on disk
DeleteOnDisk ==
    /\ race_pc = "created"
    /\ race_pc' = "deleted"
    /\ disk' = [disk EXCEPT !.accessible = FALSE]
    /\ UNCHANGED <<qvars, hvars, xvars, ix, index, mvars, bvars, vvars>>

\* services/watcher.py lines 185-197 and 204-217: the monitor publishes delete(p)
PublishDelete ==
    /\ race_pc = "deleted"
    /\ race_pc' = "published"
    /\ _items' = ItemsAfterPut(_items, RacePath, DeleteOp(RacePath))
    /\ _queue' = QueueAfterPut(_queue, _items, RacePath)
    /\ UNCHANGED <<hvars, xvars, ivars, mvars, bvars, vvars>>

\* _process_queue, lines 214-223: get() returns the operation, it is counted
\* and index_file runs up to its first await
WorkerIndexFile(w) ==
    /\ w_pc[w] = "pop"
    /\ LET op == PoppedItem(_items, w_key[w], NoOp)
       IN /\ op # NoOp
          /\ _items' = ItemsAfterPop(_items, w_key[w])
          /\ w_key' = [w_key EXCEPT ![w] = NoKey]
          /\ w_op' = [w_op EXCEPT ![w] = op]
          /\ w_pc' = [w_pc EXCEPT ![w] = "index"]
          /\ indexing_progress' = [indexing_progress EXCEPT !.files_to_index = @ + 1]
          /\ IndexFileCall(op.operation, FALSE)
    /\ UNCHANGED <<_queue, hvars, disk, index, flags, discoverer_files_found,
                   discovery_progress, verification_complete, crawl_pc, walk_rest, scan_q,
                   db, n_crawls, n_mon, n_unchanged, last_finish, ovars>>

\* _process_queue, lines 223-234: index_file has ended
WorkerReturn(w) ==
    /\ ix.pc = "idle"
    /\ WorkerFinish(w, OutcomeOf(ix))

RaceNext ==
    \/ PublishCreate
    \/ DeleteOnDisk
    \/ PublishDelete
    \/ IndexerStop
    \/ \E w \in Workers : WorkerTake(w)
    \/ \E w \in Workers : WorkerIndexFile(w)
    \/ \E ok \in BOOLEAN : HashDone(ok)
    \/ \E ok \in BOOLEAN, ex \in Extractions : GetDocDone(ok, ex)
    \/ \E ok \in BOOLEAN : IndexChunkDone(ok)
    \/ \E ok \in BOOLEAN : RemoveDone(ok)
    \/ \E w \in Workers : WorkerReturn(w)

SpecRace == RaceInit /\ [][RaceNext]_vars

\* the queue has drained and the worker waits in get()
RaceDrained ==
    /\ race_pc = "published"
    /\ _queue = <<>>
    /\ qsize(_items) = 0
    /\ \A w \in Workers : w_pc[w] = "get"

C16_WitnessCollapsed ==
    /\ RaceDrained
    /\ ix.kind = "delete" /\ ix.result = "true" /\ ix.call_no = 1
    /\ ~index.present

(***************************************************************************)
(* IndexVerifier.verify_index, batch by batch, against an index, a disk    *)
(* and a watch configuration.  Paths are sequences of characters, so that  *)
(* the string tests of the code and the ancestor tests of the path filter  *)
(* are different things.                                                   *)
(***************************************************************************)
MaxDocs == 3

\* verification.py line 71: batch_size = 100, scaled down
batch_size == 2

Sep == "/"

InRoot == <<"/", "a", "/", "f">>

BesideRoot == <<"/", "a", "b", "/", "f">>

InExcluded == <<"/", "a", "/", "x", "/", "f">>

BesideExcluded == <<"/", "a", "/", "x", "y", "/", "f">>

Outside == <<"/", "q", "/", "f">>

Catalogue == {InRoot, BesideRoot, InExcluded, BesideExcluded, Outside}

IncludedRoot == <<"/", "a">>

ExcludedSubtree == <<"/", "a", "/", "x">>

\* os.path.normpath on an absolute path without dot segments: a trailing
\* separator is dropped
Normpath(p) == IF Len(p) > 1 /\ p[Len(p)] = Sep THEN SubSeq(p, 1, Len(p) - 1) ELSE p

\* str.startswith
StartsWith(s, prefix) == IsPrefix(prefix, s)

\* the path filter: dir is the path itself or one of its ancestors
IsAncestorOrSelf(dir, path) == path = dir \/ IsPrefix(dir \o <<Sep>>, path)

\* a file is in scope if some included root is an ancestor and no excluded
\* subtree is
InScope(path, cfg) ==
    /\ \E root \in cfg.included : IsAncestorOrSelf(root, path)
    /\ ~\E exp \in cfg.excluded : IsAncestorOrSelf(exp, path)

IsExcludedFileByPrefix(norm_file_path, excluded_paths) ==
    \E exp \in excluded_paths : StartsWith(norm_file_path, exp)

\* verification.py lines 129-132
IsExcludedFile(norm_file_path, excluded_paths) ==
    \E exp \in excluded_paths :
        norm_file_path = exp \/ StartsWith(norm_file_path, exp \o <<Sep>>)

\* verification.py lines 121-135; included_paths and excluded_paths are built
\* at lines 63-64, the excluded ones normalised there
IsValidPath(file_path, cfg) ==
    LET norm_file_path == Normpath(file_path)
        excluded_paths == {Normpath(exp) : exp \in cfg.excluded}
    IN \E wp \in cfg.included :
          /\ StartsWith(norm_file_path, Normpath(wp))
          /\ ~IsExcludedFile(norm_file_path, excluded_paths)

\* verification.py lines 99-141: the document is an orphan for the verifier
IsOrphaned(file_path, disk_paths, cfg) ==
    file_path \notin disk_paths \/ ~IsValidPath(file_path, cfg)

\* an orphan: a document whose file is absent from disk or not in scope
Orphan(file_path, disk_paths, cfg) ==
    file_path \notin disk_paths \/ ~InScope(file_path, cfg)

\* services/typesense_client.py lines 335-354: the page of the listing that
\* holds position offset, or nothing when the search fails
GetAllIndexedFiles(docs, limit, offset, ok) ==
    LET page == (offset \div limit) + 1
        first == (page - 1) * limit + 1
        last == Min2(page * limit, Len(docs))
    IN IF ok THEN SubSeq(docs, first, last) ELSE <<>>

\* services/typesense_client.py lines 368-394: every path is deleted, or the
\* deletions fail and are only counted
AfterBatchRemove(docs, paths, ok) ==
    IF ok THEN SelectSeq(docs, LAMBDA p : p \notin paths) ELSE docs

Range(s) == {s[i] : i \in 1..Len(s)}

Listings == {s \in UNION {[1..n -> Catalogue] : n \in 0..MaxDocs} :
                 \A i, j \in 1..Len(s) : i # j => s[i] # s[j]}

\* an index of documents with distinct paths, any files on disk, one included
\* root with or without the excluded subtree, and either value of the setting
VerifierInit ==
    /\ DedupInit /\ HistoryInit /\ ManagerInit /\ IndexerInit /\ BootIdle /\ RaceIdle
    /\ ExtraIdle
    /\ settings \in [verify_index_on_crawl : BOOLEAN]
    /\ \E ex \in SUBSET {ExcludedSubtree} :
           watch_config = [included |-> {IncludedRoot}, excluded |-> ex]
    /\ fs \in SUBSET Catalogue
    /\ collection \in Listings
    /\ ver = NoRun

\* _run_crawl, manager.py lines 246-249, and verify_index, lines 43-71: a crawl
\* reaches its verification phase; the count and the watch paths are read
VerifyStart ==
    /\ ver.pc \in {"idle", "done"}
    /\ ver.run < MaxCrawls
    /\ ver' = [NoRun EXCEPT
                  !.run = ver.run + 1,
                  !.disturbed = ver.disturbed,
                  !.cfg = watch_config,
                  !.total_count = Len(collection),
                  !.is_complete = (Len(collection) = 0),
                  !.pc = IF Len(collection) = 0 THEN "done" ELSE "batch"]
    /\ UNCHANGED <<qvars, hvars, xvars, ivars, mvars, bvars, race_pc, settings, watch_config,
                   fs, collection>>

\* verify_index, lines 73-155: one pass of the loop, up to the next test of
\* its condition
VerifyBatch(fetch_ok, remove_ok) ==
    /\ ver.pc = "batch"
    /\ LET documents == GetAllIndexedFiles(collection, batch_size, ver.offset, fetch_ok)
           orphaned_paths == {p \in Range(documents) : IsOrphaned(p, fs, ver.cfg)}
           offset == ver.offset + Len(documents)
       IN IF ver.stop
          THEN /\ ver' = [ver EXCEPT !.pc = "done", !.is_complete = TRUE]
               /\ UNCHANGED collection
          ELSE IF documents = <<>>
          THEN /\ ver' = [ver EXCEPT !.pc = "done", !.is_complete = TRUE,
                                     !.fetches = @ + 1,
                                     !.disturbed = @ \/ ~fetch_ok]
               /\ UNCHANGED collection
          ELSE /\ collection' = AfterBatchRemove(collection, orphaned_paths, remove_ok)
               /\ ver' = [ver EXCEPT
                             !.fetches = @ + 1,
                             !.processed_count = @ + Len(documents),
                             !.orphaned_count = @ + Cardinality(orphaned_paths),
                             !.removed = @ \cup orphaned_paths,
                             !.disturbed = @ \/ (orphaned_paths # {} /\ ~remove_ok),
                             !.offset = offset,
                             !.is_complete = (offset >= ver.total_count),
                             !.pc = IF offset < ver.total_count THEN "batch" ELSE "done"]
    /\ UNCHANGED <<qvars, hvars, xvars, ivars, mvars, bvars, race_pc, settings, watch_config, fs>>

\* IndexVerifier.stop, lines 39-41, called by stop_crawl (manager.py line 324)
VerifierStop ==
    /\ ver.pc = "batch"
    /\ ~ver.stop
    /\ ver' = [ver EXCEPT !.stop = TRUE, !.disturbed = TRUE]
    /\ UNCHANGED <<qvars, hvars, xvars, ivars, mvars, bvars, race_pc, settings, watch_config,
                   fs, collection>>

\* the configuration API marks a subtree as excluded while the process runs
ExcludeSubtree ==
    /\ ExcludedSubtree \notin watch_config.excluded
    /\ watch_config' = [watch_config EXCEPT !.excluded = @ \cup {ExcludedSubtree}]
    /\ ver' = [ver EXCEPT !.disturbed = @ \/ ver.run > 0]
    /\ UNCHANGED <<qvars, hvars, xvars, ivars, mvars, bvars, race_pc, settings, fs, collection>>

VerifierNext ==
    \/ VerifyStart
    \/ \E fetch_ok \in BOOLEAN, remove_ok \in BOOLEAN : VerifyBatch(fetch_ok, remove_ok)
    \/ VerifierStop
    \/ ExcludeSubtree

SpecVerifier == VerifierInit /\ [][VerifierNext]_vars

\* C17: every path the verifier asks to remove belongs to a document whose
\* file is missing from disk or is out of scope under the watch configuration
\* the run read when it started
C17_NeverRemovesLiveInScope ==
    \A p \in ver.removed : ~(p \in fs /\ InScope(p, ver.cfg))

\* a run over a full batch that removed a document of the excluded subtree and
\* kept the in-scope file whose name only begins like the excluded subtree
C17_Witness ==
    /\ ver.pc = "done"
    /\ InExcluded \in ver.removed
    /\ BesideExcluded \in Range(collection)
    /\ BesideExcluded \in fs /\ InScope(BesideExcluded, ver.cfg)
    /\ InExcluded \in fs

\* C18: with nothing failing, stopping or changing between and during the
\* runs, a complete first run leaves no orphan in the index and the run after
\* it removes nothing
C18_VerifierIdempotent ==
    (ver.pc = "done" /\ ver.is_complete /\ ~ver.disturbed) =>
        /\ ver.run = 1 => \A p \in Range(collection) : ~Orphan(p, fs, ver.cfg)
        /\ ver.run = 2 => ver.removed = {}

\* C20: when verify_index_on_crawl is false the verifier fetches no page and
\* asks for no removal
C20_DisabledVerifierDoesNothing ==
    ~settings.verify_index_on_crawl => (ver.fetches = 0 /\ ver.removed = {})

\* C19: within a crawl no discovery operation is put on the queue (and counted,
\* manager.py lines 266-268) before the verification phase is over: every such
\* put is made with verification complete, from the discovery phase
C19_VerificationPrecedesDiscovery ==
    [][discovery_progress'.files_found > discovery_progress.files_found =>
           (verification_complete /\ crawl_pc = "discover")]_vars

\* a discovery operation is pending in the queue of a running crawl whose
\* verification is over
C19_Witness ==
    /\ _running
    /\ crawl_pc = "discover"
    /\ verification_complete
    /\ discovery_progress.files_found >= 1
    /\ \E k \in DOMAIN _items : _items[k] = CrawlOp(k)

(***************************************************************************)
(* The specifications below each look at one component on its own; pvars   *)
(* are the variables of the components above, which they leave alone.      *)
(***************************************************************************)
pvars == <<qvars, hvars, mvars, ivars, bvars, race_pc, vvars>>

RestIdle ==
    /\ DedupInit /\ HistoryInit /\ ManagerInit /\ IndexerInit
    /\ BootIdle /\ RaceIdle /\ VerifierIdle

(***************************************************************************)
(* ContentExtractor.extract over a chain of strategies.  A strategy says   *)
(* whether it can extract the file and, when asked to, returns a document, *)
(* raises an ordinary error or raises ExtractionFallbackNotAllowed.        *)
(***************************************************************************)
MaxStrategies == 3

Behaviours == {"ok", "error", "no_fallback"}

Strategy == [can_extract : BOOLEAN, does : Behaviours]

Chains == UNION {[1..n -> Strategy] : n \in 1..MaxStrategies}

NoError == [kind |-> "none", by |-> 0]

ApplicableAlways(strategy) == TRUE

\* extractor.py line 79: if strategy.can_extract(file_path)
Applicable(strategy) == strategy.can_extract

\* ContentExtractor.__init__, lines 27-38, with injected strategies, and a file
\* that exists or not
ExtractorInit ==
    /\ RestIdle
    /\ tika = Idle /\ discovery = Idle /\ event = Idle /\ ts_init = Idle
    /\ removal = Idle /\ registry = Idle
    /\ \E ch \in Chains, there \in BOOLEAN :
           extraction = [pc |-> "start", strategies |-> ch, exists |-> there, i |-> 1,
                         invoked |-> <<>>, last_error |-> NoError,
                         result |-> "none", by |-> 0]

\* extract, lines 73-77
ExtractCall ==
    /\ extraction.pc = "start"
    /\ extraction' = IF extraction.exists
                     THEN [extraction EXCEPT !.pc = "loop"]
                     ELSE [extraction EXCEPT !.pc = "done", !.result = "FileNotFoundError"]
    /\ UNCHANGED <<pvars, tika, discovery, event, ts_init, removal, registry>>

\* extract, lines 78-84: one turn of the loop over the strategies
TryStrategy ==
    /\ extraction.pc = "loop"
    /\ extraction.i <= Len(extraction.strategies)
    /\ LET i == extraction.i
           strategy == extraction.strategies[i]
       IN extraction' =
              IF ~Applicable(strategy)
              THEN [extraction EXCEPT !.i = i + 1]
              ELSE IF strategy.does = "ok"
              THEN [extraction EXCEPT !.invoked = Append(@, i), !.pc = "done",
                                      !.result = "returned", !.by = i]
              ELSE [extraction EXCEPT !.invoked = Append(@, i), !.i = i + 1,
                                      !.last_error = [kind |-> strategy.does, by |-> i]]
    /\ UNCHANGED <<pvars, tika, discovery, event, ts_init, removal, registry>>

\* extract, lines 86-90: the loop is over
ExtractEnd ==
    /\ extraction.pc = "loop"
    /\ extraction.i > Len(extraction.strategies)
    /\ extraction' =
           IF extraction.last_error # NoError
           THEN [extraction EXCEPT !.pc = "done", !.result = "raised",
                                   !.by = extraction.last_error.by]
           ELSE [extraction EXCEPT !.pc = "done", !.result = "no_strategy"]
    /\ UNCHANGED <<pvars, tika, discovery, event, ts_init, removal, registry>>

ExtractorNext == ExtractCall \/ TryStrategy \/ ExtractEnd

SpecExtractor == ExtractorInit /\ [][ExtractorNext]_vars

\* the strategies invoked so far that behaved in the given way
InvokedDoing(does) ==
    {j \in 1..Len(extraction.invoked) :
         extraction.strategies[extraction.invoked[j]].does = does}

\* the strategies of the chain that can extract the file
ApplicableIn(chain) == {i \in 1..Len(chain) : chain[i].can_extract}

\* C21: a strategy that raises ExtractionFallbackNotAllowed is the last one
\* extract invokes, and extract raises that error
C21_NoFallbackEndsExtraction ==
    \A j \in InvokedDoing("no_fallback") :
        /\ j = Len(extraction.invoked)
        /\ extraction.pc = "done" =>
               (extraction.result = "raised" /\ extraction.by = extraction.invoked[j]
                /\ extraction.last_error.kind = "no_fallback")

\* C22: in a call in which every failure is an ordinary error, the strategies
\* invoked are the applicable ones in list order, with none left out, up to
\* the first that succeeds, whose result is returned; the call raises only
\* when every applicable strategy was invoked and failed
C22_OrdinaryFailureFallsThrough ==
    (extraction.pc = "done" /\ extraction.exists /\ InvokedDoing("no_fallback") = {}) =>
        LET chain == extraction.strategies
            inv == extraction.invoked
            upto == IF extraction.result = "returned" THEN extraction.by ELSE Len(chain)
        IN /\ \A j \in 1..Len(inv) - 1 : inv[j] < inv[j + 1]
           /\ {inv[j] : j \in 1..Len(inv)} = {i \in ApplicableIn(chain) : i <= upto}
           /\ extraction.result = "returned" =>
                  /\ chain[extraction.by].does = "ok"
                  /\ \A i \in ApplicableIn(chain) : i < extraction.by => chain[i].does = "error"
           /\ extraction.result = "raised" =>
                  /\ ApplicableIn(chain) # {}
                  /\ \A i \in ApplicableIn(chain) : chain[i].does = "error"
           /\ extraction.result \in {"returned", "raised", "no_strategy"}

\* a first strategy failed with an ordinary error, one that cannot extract the
\* file was passed over, and the third returned the document
C22_Witness ==
    /\ extraction.pc = "done"
    /\ extraction.result = "returned" /\ extraction.by = 3
    /\ extraction.invoked = <<1, 3>>
    /\ extraction.strategies[1].does = "error"
    /\ ~extraction.strategies[2].can_extract

(***************************************************************************)
(* TikaExtractionStrategy.extract: MIME detection, then the attempts with  *)
(* growing timeouts, then the choice of the error to raise.                *)
(***************************************************************************)
TimeoutsFlat == <<60, 60, 60>>

\* tika_strategy.py line 43
Timeouts == <<60, 120, 240>>

\* what detector.from_file gives: it raises, or returns nothing or a MIME type
Detections == {"raises", "", "application/octet-stream", "application/pdf", "text/plain"}

\* what parser.from_file gives: it raises (a timeout, say), or returns nothing,
\* or a response with or without a status
Responses == {"raises", "empty", "no_status", "status_200", "status_500"}

IsTikaSupportedAnyMime(mime_type) == mime_type \notin {"raises", ""}

\* _is_tika_supported, lines 104-136
IsTikaSupported(mime_type) ==
    IF mime_type = "raises" THEN FALSE
    ELSE IF mime_type = "" THEN FALSE
    ELSE IF mime_type = "application/octet-stream" THEN FALSE
    ELSE TRUE

\* extract, lines 54-84: does the attempt return a document
AttemptSucceeds(response) == response \in {"no_status", "status_200"}

TikaInit ==
    /\ RestIdle
    /\ extraction = Idle /\ discovery = Idle /\ event = Idle /\ ts_init = Idle
    /\ removal = Idle /\ registry = Idle
    /\ tika = [pc |-> "start", mime_type |-> "", is_supported |-> FALSE,
               attempts |-> <<>>, last_error |-> 0, result |-> "none"]

\* extract, line 39
TikaDetect(mime_type) ==
    /\ tika.pc = "start"
    /\ tika' = [tika EXCEPT !.pc = "attempts", !.mime_type = mime_type,
                            !.is_supported = IsTikaSupported(mime_type)]
    /\ UNCHANGED <<pvars, extraction, discovery, event, ts_init, removal, registry>>

\* extract, lines 47-90: one turn of the loop over the timeouts; last_error
\* is the number of the attempt whose error it holds
TikaAttempt(response) ==
    /\ tika.pc = "attempts"
    /\ Len(tika.attempts) < Len(Timeouts)
    /\ LET attempt == Len(tika.attempts) + 1
           made == Append(tika.attempts,
                          [timeout |-> Timeouts[attempt], response |-> response])
       IN tika' = IF AttemptSucceeds(response)
                  THEN [tika EXCEPT !.attempts = made, !.pc = "done", !.result = "returned"]
                  ELSE [tika EXCEPT !.attempts = made, !.last_error = attempt]
    /\ UNCHANGED <<pvars, extraction, discovery, event, ts_init, removal, registry>>

\* extract, lines 92-102: every attempt failed
TikaGiveUp ==
    /\ tika.pc = "attempts"
    /\ Len(tika.attempts) = Len(Timeouts)
    /\ tika' = [tika EXCEPT !.pc = "done",
                            !.result = IF tika.is_supported THEN "ExtractionFallbackNotAllowed"
                                       ELSE IF tika.last_error # 0 THEN "last_error"
                                       ELSE "ValueError"]
    /\ UNCHANGED <<pvars, extraction, discovery, event, ts_init, removal, registry>>

TikaNext ==
    \/ \E mime_type \in Detections : TikaDetect(mime_type)
    \/ \E response \in Responses : TikaAttempt(response)
    \/ TikaGiveUp

SpecTika == TikaInit /\ [][TikaNext]_vars

\* C23: the attempts made are the first of three, with timeouts 60, 120 and
\* 240 seconds in that order, and an attempt that succeeded is the last one
C23_ThreeGrowingTimeouts ==
    /\ Len(tika.attempts) <= 3
    /\ \A a \in 1..Len(tika.attempts) :
           /\ tika.attempts[a].timeout = <<60, 120, 240>>[a]
           /\ AttemptSucceeds(tika.attempts[a].response) =>
                  (a = Len(tika.attempts) /\ tika.pc = "done" /\ tika.result = "returned")

\* two attempts failed and the third, with the longest timeout, succeeded
C23_Witness ==
    /\ tika.pc = "done" /\ tika.result = "returned"
    /\ Len(tika.attempts) = 3
    /\ tika.attempts[3].timeout = 240
    /\ tika.attempts[1].response = "raises"

\* C24: when every attempt has failed, the no-fallback error is raised exactly
\* when a MIME type other than application/octet-stream was detected;
\* otherwise the error of the last attempt is raised
C24_NoFallbackIffSupportedMime ==
    (tika.pc = "done" /\ tika.result # "returned") =>
        /\ \A a \in 1..Len(tika.attempts) : ~AttemptSucceeds(tika.attempts[a].response)
        /\ Len(tika.attempts) = Len(Timeouts)
        /\ tika.result = "ExtractionFallbackNotAllowed" <=>
               tika.mime_type \notin {"raises", "", "application/octet-stream"}
        /\ tika.result # "ExtractionFallbackNotAllowed" =>
               (tika.result = "last_error" /\ tika.last_error = Len(tika.attempts))

\* both outcomes: a PDF that Tika could not parse, and an unknown binary
C24_Witness ==
    /\ tika.pc = "done"
    /\ tika.result = "ExtractionFallbackNotAllowed"
    /\ tika.mime_type = "application/pdf"
    /\ tika.attempts[3].response = "status_500"

C24_WitnessOrdinary ==
    /\ tika.pc = "done"
    /\ tika.result = "last_error"
    /\ tika.mime_type = "application/octet-stream"
    /\ tika.last_error = 3

(***************************************************************************)
(* FileDiscoverer.discover: scan_worker walks every included watch path    *)
(* top-down and emits one create operation per file it finds.  The         *)
(* filesystem is a small fixed tree; paths are sequences of characters as  *)
(* above.                                                                  *)
(***************************************************************************)
MaxRoots == 2

DirA == <<"/", "a">>

DirAX == <<"/", "a", "/", "x">>

DirAXD == <<"/", "a", "/", "x", "/", "d">>

DirAXY == <<"/", "a", "/", "x", "y">>

DirQ == <<"/", "q">>

DirMissing == <<"/", "z">>

Directories == {DirA, DirAX, DirAXD, DirAXY, DirQ}

TreeFiles == {d \o <<Sep, "f">> : d \in Directories}

\* the entries of a directory, as os.walk lists them
IsChild(root, p) ==
    /\ Len(p) > Len(root) + 1
    /\ IsPrefix(root \o <<Sep>>, p)
    /\ \A k \in (Len(root) + 2)..Len(p) : p[k] # Sep

WatchPath == [path : Directories \cup {DirMissing}, include_subdirectories : BOOLEAN]

IncludedLists ==
    {l \in UNION {[1..n -> WatchPath] : n \in 1..MaxRoots} :
         \A a, b \in 1..Len(l) : a # b => l[a].path # l[b].path}

\* discoverer.py lines 43-49
is_excluded(path, excluded_paths) ==
    LET norm_path == Normpath(path)
    IN \E excluded \in excluded_paths :
           norm_path = excluded \/ StartsWith(norm_path, excluded \o <<Sep>>)

\* FileDiscoverer.__init__ and discover lines 36-41, for a watch configuration
\* with at most one excluded path
DiscovererInit ==
    /\ RestIdle
    /\ extraction = Idle /\ tika = Idle /\ event = Idle /\ ts_init = Idle
    /\ removal = Idle /\ registry = Idle
    /\ \E inc \in IncludedLists, exc \in SUBSET Directories :
           /\ Cardinality(exc) <= 1
           /\ discovery = [pc |-> "scan", included_paths |-> inc,
                           excluded_paths |-> {Normpath(p) : p \in exc},
                           i |-> 1, walking |-> FALSE, todo |-> {},
                           emitted |-> {}, files_found |-> 0, stop |-> FALSE]

\* scan_worker, lines 54-62: the next included watch path
NextWatchPath ==
    /\ discovery.pc = "scan"
    /\ ~discovery.walking
    /\ discovery' =
           IF discovery.i > Len(discovery.included_paths) \/ discovery.stop
           THEN [discovery EXCEPT !.pc = "done"]
           ELSE IF discovery.included_paths[discovery.i].path \notin Directories
           THEN [discovery EXCEPT !.i = @ + 1]
           ELSE [discovery EXCEPT !.walking = TRUE,
                                  !.todo = {discovery.included_paths[discovery.i].path}]
    /\ UNCHANGED <<pvars, extraction, tika, event, ts_init, removal, registry>>

\* scan_worker, lines 62-101: os.walk yields one directory; gone are the files
\* of it that vanish before os.stat
WalkDirectory(root, gone) ==
    /\ discovery.pc = "scan"
    /\ discovery.walking
    /\ root \in discovery.todo
    /\ LET watch_path_model == discovery.included_paths[discovery.i]
           dirs == {d \in Directories : IsChild(root, d)
                                         /\ ~is_excluded(d, discovery.excluded_paths)}
           descend == IF watch_path_model.include_subdirectories THEN dirs ELSE {}
           files == {f \in TreeFiles : IsChild(root, f)}
           rest == (discovery.todo \ {root}) \cup descend
       IN /\ gone \subseteq files
          /\ discovery' =
                 IF discovery.stop
                 THEN [discovery EXCEPT !.pc = "done"]
                 ELSE [discovery EXCEPT
                           !.todo = rest,
                           !.walking = rest # {},
                           !.i = IF rest = {} THEN @ + 1 ELSE @,
                           !.emitted = @ \cup (files \ gone),
                           !.files_found = @ + Cardinality(files \ gone)]
    /\ UNCHANGED <<pvars, extraction, tika, event, ts_init, removal, registry>>

\* FileDiscoverer.stop, lines 26-29
DiscovererStop ==
    /\ discovery.pc = "scan"
    /\ ~discovery.stop
    /\ discovery' = [discovery EXCEPT !.stop = TRUE]
    /\ UNCHANGED <<pvars, extraction, tika, event, ts_init, removal, registry>>

DiscovererNext ==
    \/ NextWatchPath
    \/ \E root \in Directories, gone \in SUBSET TreeFiles : WalkDirectory(root, gone)
    \/ DiscovererStop

SpecDiscoverer == DiscovererInit /\ [][DiscovererNext]_vars

\* the watch configuration the discoverer was built with
DiscoveryScope ==
    [included |-> {discovery.included_paths[k].path : k \in 1..Len(discovery.included_paths)},
     excluded |-> discovery.excluded_paths]

\* C25: every file the discoverer emits an operation for is in scope: under an
\* included root and under no excluded subtree
C25_EmitsOnlyInScope ==
    discovery.pc # "idle" =>
        \A file_path \in discovery.emitted : InScope(file_path, DiscoveryScope)

\* the same, for configurations in which no included root lies in an excluded
\* subtree
C25_EmitsOnlyInScopeNormalRoots ==
    (/\ discovery.pc # "idle"
     /\ \A k \in 1..Len(discovery.included_paths) :
            ~is_excluded(discovery.included_paths[k].path, discovery.excluded_paths)) =>
        \A file_path \in discovery.emitted : InScope(file_path, DiscoveryScope)

(***************************************************************************)
(* The watcher: CrawlEventHandler receives the watchdog events on the      *)
(* observer thread and hands an event object to the callback built by      *)
(* create_watcher_for_crawl, which schedules                               *)
(* OperationEventHandler.handle_file_event on the loop.  An event object   *)
(* is known by its class and by the attributes it has.                     *)
(***************************************************************************)
MaxEvents == 2

EventKinds == {"created", "modified", "deleted"}

WatchedFile == <<"/", "a", "/", "f">>

WatchOperation(operation) ==
    [operation |-> operation, file_path |-> WatchedFile, source |-> "watch"]

\* watcher.py lines 81-114: on_created, on_modified and on_deleted; the event
\* objects built there are the models of api/models/file_event.py, which
\* carry file_path
CrawlEventHandlerEvents(kind, is_directory) ==
    IF is_directory THEN {}
    ELSE {[cls |-> CASE kind = "created" -> "api.FileDiscoveredEvent"
                     [] kind = "modified" -> "api.FileChangedEvent"
                     [] OTHER -> "api.FileDeletedEvent",
           attrs |-> {"event_type", "file_path", "timestamp"},
           kind |-> kind]}

\* watcher.py lines 138-202; the names FileCreatedEvent and FileModifiedEvent
\* are watchdog's (line 10), FileDeletedEvent is the model imported at line 11
handle_file_event(ev, exists) ==
    IF "file_path" \in ev.attrs
    THEN {}
    ELSE IF "src_path" \notin ev.attrs
    THEN {}
    ELSE IF ev.cls = "watchdog.FileCreatedEvent"
    THEN IF exists THEN {WatchOperation("create")} ELSE {}
    ELSE IF ev.cls = "watchdog.FileModifiedEvent"
    THEN IF exists THEN {WatchOperation("edit")} ELSE {}
    ELSE IF ev.cls = "api.FileDeletedEvent"
    THEN IF exists THEN {} ELSE {WatchOperation("delete")}
    ELSE {}

\* FileWatcher.start, lines 45-50, after create_watcher_for_crawl
MonitorInit ==
    /\ RestIdle
    /\ extraction = Idle /\ tika = Idle /\ discovery = Idle /\ ts_init = Idle
    /\ removal = Idle /\ registry = Idle
    /\ \E there \in BOOLEAN :
           event = [pc |-> "watching", exists |-> there, scheduled |-> <<>>,
                    n |-> 0, log |-> {}]

\* the file appears or disappears on disk
TouchFile ==
    /\ event.pc = "watching"
    /\ event' = [event EXCEPT !.exists = ~@]
    /\ UNCHANGED <<pvars, extraction, tika, discovery, ts_init, removal, registry>>

\* CrawlEventHandler.on_created / on_modified / on_deleted and the callback
\* on_file_event, lines 81-126 and 259-271; a directory event ends here
OnEvent(kind, is_directory) ==
    /\ event.pc = "watching"
    /\ event.n < MaxEvents
    /\ LET evs == CrawlEventHandlerEvents(kind, is_directory)
       IN event' = IF evs = {}
                   THEN [event EXCEPT !.n = @ + 1,
                             !.log = @ \cup {[kind |-> kind, is_directory |-> TRUE,
                                              exists |-> event.exists, ops |-> {}]}]
                   ELSE [event EXCEPT !.n = @ + 1,
                             !.scheduled = Append(@, CHOOSE ev \in evs : TRUE)]
    /\ UNCHANGED <<pvars, extraction, tika, discovery, ts_init, removal, registry>>

\* OperationEventHandler.handle_file_event, lines 138-202, run by the loop
HandleFileEvent ==
    /\ event.pc = "watching"
    /\ event.scheduled # <<>>
    /\ LET ev == Head(event.scheduled)
       IN event' = [event EXCEPT
                        !.scheduled = Tail(@),
                        !.log = @ \cup {[kind |-> ev.kind, is_directory |-> FALSE,
                                         exists |-> event.exists,
                                         ops |-> handle_file_event(ev, event.exists)]}]
    /\ UNCHANGED <<pvars, extraction, tika, discovery, ts_init, removal, registry>>

MonitorNext ==
    \/ TouchFile
    \/ \E kind \in EventKinds, is_directory \in BOOLEAN : OnEvent(kind, is_directory)
    \/ HandleFileEvent

SpecMonitor == MonitorInit /\ [][MonitorNext]_vars

\* C26: a created file gives a create operation, a modified file an edit
\* operation exactly when it still exists, a deleted file a delete operation
\* exactly when the path no longer exists, a directory event nothing, and
\* every operation is stamped source = watch
C26_EventTranslation ==
    \A h \in event.log :
        /\ \A op \in h.ops : op.source = "watch"
        /\ h.is_directory => h.ops = {}
        /\ (~h.is_directory /\ h.kind = "created") => h.ops = {WatchOperation("create")}
        /\ (~h.is_directory /\ h.kind = "modified") =>
               h.ops = (IF h.exists THEN {WatchOperation("edit")} ELSE {})
        /\ (~h.is_directory /\ h.kind = "deleted") =>
               h.ops = (IF h.exists THEN {} ELSE {WatchOperation("delete")})

(***************************************************************************)
(* TypesenseClient.initialize_collection: up to max_attempts attempts to   *)
(* see the collection or to create it.                                     *)
(***************************************************************************)
MaxAttempts == 3

MaxInitCalls == 2

\* what one attempt meets: retrieve() returns, raises ObjectNotFound or fails
\* otherwise; create() returns, raises ObjectAlreadyExists or fails otherwise
AttemptOutcomes ==
    {[retrieve |-> "found", create |-> "not_called"],
     [retrieve |-> "error", create |-> "not_called"],
     [retrieve |-> "not_found", create |-> "created"],
     [retrieve |-> "not_found", create |-> "already_exists"],
     [retrieve |-> "not_found", create |-> "error"]}

CollectionSeenNoRace(o) ==
    o.retrieve = "found" \/ (o.retrieve = "not_found" /\ o.create = "created")

\* typesense_client.py lines 56-94: the attempt ends initialize_collection with
\* collection_ready = True
CollectionSeen(o) ==
    \/ o.retrieve = "found"
    \/ o.retrieve = "not_found" /\ o.create = "created"
    \/ o.retrieve = "not_found" /\ o.create = "already_exists"

\* TypesenseClient.__init__, line 34
CollectionInit ==
    /\ RestIdle
    /\ extraction = Idle /\ tika = Idle /\ discovery = Idle /\ event = Idle
    /\ removal = Idle /\ registry = Idle
    /\ ts_init = [pc |-> "new", collection_ready |-> FALSE, max_attempts |-> 0,
                  attempt |-> 0, outcomes |-> <<>>, calls |-> 0]

\* initialize_collection, lines 36-52
InitializeCollection(max_attempts) ==
    /\ ts_init.pc \in {"new", "returned"}
    /\ ts_init.calls < MaxInitCalls
    /\ ts_init' = [ts_init EXCEPT !.pc = "loop", !.max_attempts = max_attempts,
                                  !.attempt = 0, !.outcomes = <<>>, !.calls = @ + 1]
    /\ UNCHANGED <<pvars, extraction, tika, discovery, event, removal, registry>>

\* initialize_collection, lines 54-99: one turn of the loop
CollectionAttempt(o) ==
    /\ ts_init.pc = "loop"
    /\ ts_init.attempt < ts_init.max_attempts
    /\ ts_init' = IF CollectionSeen(o)
                  THEN [ts_init EXCEPT !.attempt = @ + 1, !.outcomes = Append(@, o),
                                       !.collection_ready = TRUE, !.pc = "returned"]
                  ELSE [ts_init EXCEPT !.attempt = @ + 1, !.outcomes = Append(@, o)]
    /\ UNCHANGED <<pvars, extraction, tika, discovery, event, removal, registry>>

\* initialize_collection, lines 101-107
CollectionGiveUp ==
    /\ ts_init.pc = "loop"
    /\ ts_init.attempt >= ts_init.max_attempts
    /\ ts_init' = [ts_init EXCEPT !.collection_ready = FALSE, !.pc = "returned"]
    /\ UNCHANGED <<pvars, extraction, tika, discovery, event, removal, registry>>

CollectionNext ==
    \/ \E max_attempts \in 0..MaxAttempts : InitializeCollection(max_attempts)
    \/ \E o \in AttemptOutcomes : CollectionAttempt(o)
    \/ CollectionGiveUp

SpecCollection == CollectionInit /\ [][CollectionNext]_vars

\* C27: initialize_collection never makes more than max_attempts attempts,
\* and it returns with collection_ready true exactly when one of its attempts
\* saw the collection, created it or found it created by someone else; when
\* it returns with collection_ready false, max_attempts attempts have failed
C27_ReadyIffSomeAttemptSucceeded ==
    LET good(o) == \/ o.retrieve = "found"
                   \/ o.create = "created"
                   \/ o.create = "already_exists"
        made == ts_init.outcomes
    IN /\ Len(made) <= ts_init.max_attempts
       /\ ts_init.pc = "returned" =>
              /\ ts_init.collection_ready <=> \E a \in 1..Len(made) : good(made[a])
              /\ ~ts_init.collection_ready => Len(made) = ts_init.max_attempts

\* a second call that gives up after three failed attempts, on a client the
\* first call had left ready
C27_Witness ==
    /\ ts_init.pc = "returned"
    /\ ts_init.calls = 2
    /\ ~ts_init.collection_ready
    /\ Len(ts_init.outcomes) = 3

\* a call that lost the creation race on its second attempt
C27_WitnessRace ==
    /\ ts_init.pc = "returned"
    /\ ts_init.collection_ready
    /\ Len(ts_init.outcomes) = 2
    /\ ts_init.outcomes[2].create = "already_exists"

(***************************************************************************)
(* Removal from the index: TypesenseClient.remove_from_index as called by  *)
(* the indexer's delete operation, and batch_remove_files.  The index is   *)
(* the set of paths that have a document; a call to the search engine may  *)
(* fail for a reason other than the document being absent.                 *)
(***************************************************************************)
MaxRemovals == 3

\* documents[doc_id].delete(): what the search engine answers
DocumentDelete(indexed, file_path, fault) ==
    IF fault THEN "error"
    ELSE IF file_path \in indexed THEN "deleted"
    ELSE "ObjectNotFound"

remove_from_index_swallowing(answer) == "returns"

\* typesense_client.py lines 238-249
remove_from_index(answer) == IF answer = "error" THEN "raises" ELSE "returns"

\* indexer.py lines 113-119
handle_delete_operation(answer) == remove_from_index(answer) = "returns"

\* the answers batch_remove_files gets for file_paths, in order
RECURSIVE BatchAnswers(_, _, _)
BatchAnswers(indexed, file_paths, faults) ==
    IF file_paths = <<>> THEN <<>>
    ELSE LET answer == DocumentDelete(indexed, Head(file_paths), Head(faults))
         IN <<answer>> \o BatchAnswers(IF answer = "deleted"
                                        THEN indexed \ {Head(file_paths)} ELSE indexed,
                                        Tail(file_paths), Tail(faults))

\* typesense_client.py lines 368-395
batch_remove_files(answers) ==
    [successful |-> Cardinality({k \in 1..Len(answers) : answers[k] # "error"}),
     failed |-> Cardinality({k \in 1..Len(answers) : answers[k] = "error"})]

RemovalInit ==
    /\ RestIdle
    /\ extraction = Idle /\ tika = Idle /\ discovery = Idle /\ event = Idle
    /\ ts_init = Idle /\ registry = Idle
    /\ \E indexed \in SUBSET Keys :
           removal = [pc |-> "ready", indexed |-> indexed, n |-> 0,
                      call |-> "none", answers |-> <<>>, raised |-> FALSE,
                      reported |-> TRUE, counts |-> [successful |-> 0, failed |-> 0]]

\* FileIndexer._handle_delete_operation, indexer.py lines 113-119
HandleDeleteOperation(file_path, fault) ==
    /\ removal.pc = "ready"
    /\ removal.n < MaxRemovals
    /\ LET answer == DocumentDelete(removal.indexed, file_path, fault)
       IN removal' = [removal EXCEPT
                          !.n = @ + 1,
                          !.call = "delete",
                          !.answers = <<answer>>,
                          !.indexed = IF answer = "deleted" THEN @ \ {file_path} ELSE @,
                          !.raised = remove_from_index(answer) = "raises",
                          !.reported = handle_delete_operation(answer)]
    /\ UNCHANGED <<pvars, extraction, tika, discovery, event, ts_init, registry>>

\* TypesenseClient.batch_remove_files, typesense_client.py lines 368-395
BatchRemoveFiles(file_paths, faults) ==
    /\ removal.pc = "ready"
    /\ removal.n < MaxRemovals
    /\ Len(faults) = Len(file_paths)
    /\ LET answers == BatchAnswers(removal.indexed, file_paths, faults)
       IN removal' = [removal EXCEPT
                          !.n = @ + 1,
                          !.call = "batch",
                          !.answers = answers,
                          !.indexed = @ \ {file_paths[k] : k \in {j \in 1..Len(answers) :
                                                                     answers[j] = "deleted"}},
                          !.raised = FALSE,
                          !.counts = batch_remove_files(answers)]
    /\ UNCHANGED <<pvars, extraction, tika, discovery, event, ts_init, registry>>

\* a document is indexed in between
IndexDocument(file_path) ==
    /\ removal.pc = "ready"
    /\ file_path \notin removal.indexed
    /\ removal' = [removal EXCEPT !.indexed = @ \cup {file_path}]
    /\ UNCHANGED <<pvars, extraction, tika, discovery, event, ts_init, registry>>

RemovalNext ==
    \/ \E file_path \in Keys, fault \in BOOLEAN : HandleDeleteOperation(file_path, fault)
    \/ \E n \in 1..NumKeys : \E file_paths \in [1..n -> Keys], faults \in [1..n -> BOOLEAN] :
           BatchRemoveFiles(file_paths, faults)
    \/ \E file_path \in Keys : IndexDocument(file_path)

SpecRemoval == RemovalInit /\ [][RemovalNext]_vars

\* C28: removing a path that has no document succeeds - the delete operation
\* is reported done, the batch counts it as successful - and any other error
\* does not: remove_from_index raises it, the delete operation is reported as
\* failed, the batch counts it as failed
C28_OnlyNotFoundIsForgiven ==
    /\ removal.call = "delete" =>
           /\ removal.answers[1] = "ObjectNotFound" => (~removal.raised /\ removal.reported)
           /\ removal.answers[1] = "deleted" => (~removal.raised /\ removal.reported)
           /\ removal.answers[1] = "error" => (removal.raised /\ ~removal.reported)
    /\ removal.call = "batch" =>
           /\ ~removal.raised
           /\ removal.counts.failed =
                  Cardinality({k \in 1..Len(removal.answers) : removal.answers[k] = "error"})
           /\ removal.counts.successful + removal.counts.failed = Len(removal.answers)

\* a delete operation for a path that has no document, reported as done
C28_Witness ==
    /\ removal.call = "delete"
    /\ removal.answers = <<"ObjectNotFound">>
    /\ removal.reported

\* a delete operation that met another error, reported as failed
C28_WitnessError ==
    /\ removal.call = "delete"
    /\ removal.answers = <<"error">>
    /\ ~removal.reported

\* a batch with one absent path and one failure
C28_WitnessBatch ==
    /\ removal.call = "batch"
    /\ removal.answers = <<"ObjectNotFound", "error">>
    /\ removal.counts = [successful |-> 1, failed |-> 1]

(***************************************************************************)
(* ServiceManager: the registry of service states with the dependencies of *)
(* ServiceManager.__init__.  A service is set READY by a direct set_ready, *)
(* by a health check that passes, or by its background initialization.     *)
(***************************************************************************)
RegisteredServices == {"database", "typesense", "tika", "crawl_manager"}

\* service_manager.py lines 47-64
Dependencies(service_name) == IF service_name = "database" THEN {} ELSE {"database"}

\* get_dependency_status, lines 258-281: the "ready" entry of the result
get_dependency_status(states, service_name) ==
    \A dep \in Dependencies(service_name) : states[dep] = "ready"

\* ServiceManager.__init__, lines 46-67
RegistryInit ==
    /\ RestIdle
    /\ extraction = Idle /\ tika = Idle /\ discovery = Idle /\ event = Idle
    /\ ts_init = Idle /\ removal = Idle
    /\ registry = [pc |-> "running",
                   state |-> [s \in RegisteredServices |-> "not_started"],
                   task |-> [s \in RegisteredServices |-> "none"],
                   via |-> "none"]

\* set_ready, lines 126-128, called by the application
SetReady(service_name) ==
    /\ registry.pc = "running"
    /\ registry' = [registry EXCEPT !.state[service_name] = "ready", !.via = "set_ready"]
    /\ UNCHANGED <<pvars, extraction, tika, discovery, event, ts_init, removal>>

\* set_disabled, lines 134-137
SetDisabled(service_name) ==
    /\ registry.pc = "running"
    /\ registry' = [registry EXCEPT !.state[service_name] = "disabled", !.via = "set_disabled"]
    /\ UNCHANGED <<pvars, extraction, tika, discovery, event, ts_init, removal>>

\* check_service_health, lines 139-229, for a service with a registered
\* checker: healthy is the checker's verdict; waiting says that a retry is
\* scheduled for later (lines 156-158) or that the last success is recent
\* (line 172), in which cases the checker is not run
CheckServiceHealth(service_name, healthy, waiting) ==
    /\ registry.pc = "running"
    /\ LET state == registry.state[service_name]
           runs == /\ state # "disabled"
                   /\ ~(state \in {"failed", "ready"} /\ waiting)
       IN registry' = IF ~runs THEN registry
                      ELSE [registry EXCEPT
                                !.state[service_name] = IF healthy THEN "ready" ELSE "failed",
                                !.via = "health_check"]
    /\ registry' # registry
    /\ UNCHANGED <<pvars, extraction, tika, discovery, event, ts_init, removal>>

\* start_background_initialization and _initialize_service_background up to
\* the call of init_func, lines 283-311
BackgroundInitBegin(service_name) ==
    /\ registry.pc = "running"
    /\ registry.task[service_name] = "none"
    /\ registry' =
           IF get_dependency_status(registry.state, service_name)
           THEN [registry EXCEPT !.state[service_name] = "initializing",
                                 !.task[service_name] = "init_func",
                                 !.via = "background"]
           ELSE [registry EXCEPT !.state[service_name] = "failed", !.via = "background"]
    /\ UNCHANGED <<pvars, extraction, tika, discovery, event, ts_init, removal>>

\* _initialize_service_background, lines 311-327: init_func returns or raises
BackgroundInitEnd(service_name, ok) ==
    /\ registry.pc = "running"
    /\ registry.task[service_name] = "init_func"
    /\ registry' = [registry EXCEPT
                        !.state[service_name] = IF ok THEN "ready" ELSE "failed",
                        !.task[service_name] = "none",
                        !.via = "background"]
    /\ UNCHANGED <<pvars, extraction, tika, discovery, event, ts_init, removal>>

RegistryNext ==
    \E service_name \in RegisteredServices :
        \/ SetReady(service_name)
        \/ SetDisabled(service_name)
        \/ \E healthy, waiting \in BOOLEAN : CheckServiceHealth(service_name, healthy, waiting)
        \/ BackgroundInitBegin(service_name)
        \/ \E ok \in BOOLEAN : BackgroundInitEnd(service_name, ok)

SpecRegistry == RegistryInit /\ [][RegistryNext]_vars

\* the services that a step makes READY
BecomeReady ==
    {s \in RegisteredServices : registry.state[s] # "ready" /\ registry'.state[s] = "ready"}

\* C29: a service becomes READY only in a state in which all of its
\* dependencies are READY
C29_ReadyOnlyWithReadyDependencies ==
    [][\A s \in BecomeReady : \A dep \in Dependencies(s) : registry.state[dep] = "ready"]_vars

\* the same for the background initialization alone
C29_BackgroundInitWithReadyDependencies ==
    [][registry'.via = "background" =>
           \A s \in BecomeReady : \A dep \in Dependencies(s) : registry.state[dep] = "ready"]_vars

(***************************************************************************)
(* The capacity of the dedup queue.  worker_queue_size is the setting of   *)
(* core/config.py, here with a value small enough for the keys at hand.    *)
(***************************************************************************)
worker_queue_size == 1

\* C30: the number of pending entries of the dedup queue never exceeds
\* worker_queue_size; a put of a new key on a full queue waits for a get
C30_QueueBounded == Len(_queue) <= worker_queue_size

\* C31: the verifier decides scope as the path filter does, with a
\* separator-aware ancestor test: after a complete, undisturbed run over an
\* index that fits in one batch, the documents removed are orphans and the
\* documents left are not - a document beside an included root, whose path
\* only begins with the same characters, is not left in the index
C31_VerifierScopeIsPathFilter ==
    (ver.pc = "done" /\ ver.is_complete /\ ~ver.disturbed /\ ver.total_count <= batch_size) =>
        /\ \A p \in ver.removed : Orphan(p, fs, ver.cfg)
        /\ \A p \in Range(collection) : ~Orphan(p, fs, ver.cfg)

(***************************************************************************)
(* The chunk documents of one file path.  Here index is the set of chunk   *)
(* documents stored for the path, each under the id of its chunk_index,    *)
(* and ix follows _handle_create_edit_operation upsert by upsert.  The     *)
(* content of the file is known by its hash; content h splits into h       *)
(* chunks.                                                                 *)
(***************************************************************************)
\* chunk_text, called at indexer.py line 76: deterministic, at least one chunk
ChunkTotal(content) == content

\* the chunk document built at indexer.py lines 82-109; only chunk 0 carries
\* the file_hash
ChunkDocument(chunk_index, chunk_total, file_hash) ==
    [chunk_index |-> chunk_index, chunk_total |-> chunk_total, content_of |-> file_hash,
     file_hash |-> IF chunk_index = 0 THEN file_hash ELSE NoHash]

\* typesense.index_file as an upsert of one chunk document: the document with
\* the same chunk_index is replaced, the others stay
UpsertChunk(stored, doc) ==
    {d \in stored : d.chunk_index # doc.chunk_index} \cup {doc}

\* get_doc_by_path, called at indexer.py line 61: chunk 0 or None
GetChunkZero(stored) ==
    IF \E d \in stored : d.chunk_index = 0
    THEN [present |-> TRUE, file_hash |-> (CHOOSE d \in stored : d.chunk_index = 0).file_hash]
    ELSE NoDoc

NoChunkCall ==
    [pc |-> "idle", file_hash |-> NoHash, chunk_index |-> 0, chunk_total |-> 0,
     result |-> "none", call_no |-> 0]

ChunksInit ==
    /\ DedupInit /\ HistoryInit /\ ManagerInit /\ BootIdle /\ RaceIdle /\ VerifierIdle
    /\ ExtraIdle
    /\ ix = NoChunkCall
    /\ disk \in [accessible : {TRUE}, content : Contents]
    /\ index = {}

\* the file is rewritten between two calls
RewriteFile(content) ==
    /\ ix.pc = "idle"
    /\ content # disk.content
    /\ disk' = [disk EXCEPT !.content = content]
    /\ UNCHANGED <<qvars, hvars, ix, index, mvars, ovars>>

\* _handle_create_edit_operation, indexer.py lines 44-79: hash, lookup of chunk
\* 0, skip of an unchanged file, extraction and chunking
CreateEditCall(extract_ok) ==
    /\ ix.pc = "idle"
    /\ ix.call_no < MaxIndexCalls
    /\ LET file_hash == disk.content
           call == [NoChunkCall EXCEPT !.file_hash = file_hash, !.call_no = ix.call_no + 1]
       IN ix' = IF ShouldSkip(GetChunkZero(index), file_hash)
                THEN [call EXCEPT !.result = "skipped"]
                ELSE IF ~extract_ok
                THEN [call EXCEPT !.result = "raised"]
                ELSE [call EXCEPT !.pc = "index", !.chunk_total = ChunkTotal(disk.content)]
    /\ UNCHANGED <<qvars, hvars, disk, index, mvars, ovars>>

\* _handle_create_edit_operation, indexer.py lines 81-111: one turn of the
\* loop over the chunks; the upsert returns or raises
UpsertNextChunk(ok) ==
    /\ ix.pc = "index"
    /\ IF ~ok
       THEN /\ ix' = [ix EXCEPT !.pc = "idle", !.result = "raised"]
            /\ UNCHANGED index
       ELSE /\ index' = UpsertChunk(index,
                            ChunkDocument(ix.chunk_index, ix.chunk_total, ix.file_hash))
            /\ ix' = IF ix.chunk_index + 1 < ix.chunk_total
                     THEN [ix EXCEPT !.chunk_index = @ + 1]
                     ELSE [ix EXCEPT !.pc = "idle", !.result = "true"]
    /\ UNCHANGED <<qvars, hvars, disk, mvars, ovars>>

ChunksNext ==
    \/ \E content \in Contents : RewriteFile(content)
    \/ \E extract_ok \in BOOLEAN : CreateEditCall(extract_ok)
    \/ \E ok \in BOOLEAN : UpsertNextChunk(ok)

SpecChunks == ChunksInit /\ [][ChunksNext]_vars

\* the chunk documents of the content with hash h
ChunksOfContent(h) == {ChunkDocument(k, ChunkTotal(h), h) : k \in 0..(ChunkTotal(h) - 1)}

\* C32: when a create/edit of the path has been processed to the end, the
\* documents stored for the path are exactly the chunks 0..chunk_total-1 of
\* the content that was indexed, so every stored chunk has
\* chunk_index < chunk_total
C32_StoredChunksAreLatest ==
    (ix.pc = "idle" /\ ix.result = "true") =>
        /\ index = ChunksOfContent(ix.file_hash)
        /\ \A d \in index : d.chunk_index < ChunkTotal(ix.file_hash)

\* C36: between two calls, whenever chunk 0 is stored with file_hash H, the
\* chunks 1..chunk_total-1 of the content with hash H are stored too
C36_ChunkZeroImpliesAllChunks ==
    ix.pc = "idle" =>
        \A d \in index :
            d.chunk_index = 0 => ChunksOfContent(d.file_hash) \subseteq index

(***************************************************************************)
(* The retry schedule of one service of the ServiceManager that has a      *)
(* health checker.  Time is a clock of whole seconds; an Optional field is *)
(* the empty tuple (None) or a tuple of one value.                         *)
(***************************************************************************)
MaxClock == 3

LargeMaxRetries == 10

\* ServiceStatus.max_retries, service_manager.py line 34
DefaultMaxRetries == 3

\* update_service_state, line 109: the cap of the backoff, in seconds
MaxBackoffSeconds == 300

None == <<>>

BackoffUncapped(retry_count) == 2 ^ retry_count

\* update_service_state, line 109: min(2 ** status.retry_count, 300)
BackoffSeconds(retry_count) == Min2(2 ^ retry_count, MaxBackoffSeconds)

\* update_service_state, lines 86-120, on the status record
update_service_state(status, state, error_message, now) ==
    IF state = "ready"
    THEN [status EXCEPT !.state = state, !.retry_count = 0, !.next_retry = None,
                        !.error_message = None]
    ELSE IF state = "failed"
    THEN [status EXCEPT !.state = state, !.error_message = error_message,
                        !.retry_count = @ + 1,
                        !.next_retry = IF status.retry_count + 1 < status.max_retries
                                       THEN <<now + BackoffSeconds(status.retry_count + 1)>>
                                       ELSE None]
    ELSE [status EXCEPT !.state = state]

\* check_service_health, lines 155-164: a retry is scheduled for later
RetryScheduled(status, now) ==
    status.state = "failed" /\ status.next_retry # None /\ now < status.next_retry[1]

NoServiceCall == [call |-> "none", at |-> 0, before |-> None, ran_checker |-> FALSE,
                  answer |-> "none"]

\* a ServiceStatus as ServiceManager.__init__ builds it, lines 26-37, with the
\* default max_retries or a larger one
RetryInit ==
    /\ RestIdle
    /\ extraction = Idle /\ tika = Idle /\ discovery = Idle /\ event = Idle
    /\ ts_init = Idle /\ removal = Idle
    /\ \E max_retries \in {DefaultMaxRetries, LargeMaxRetries} :
           registry = [pc |-> "retry", now |-> 0,
                       status |-> [state |-> "not_started", retry_count |-> 0,
                                   max_retries |-> max_retries, next_retry |-> None,
                                   error_message |-> None],
                       last |-> NoServiceCall]

\* a second passes
ClockTick ==
    /\ registry.pc = "retry"
    /\ registry.now < MaxClock
    /\ registry' = [registry EXCEPT !.now = @ + 1]
    /\ UNCHANGED <<pvars, extraction, tika, discovery, event, ts_init, removal>>

\* set_failed, lines 130-132, as called when the background initialization
\* fails (line 321)
SetFailed ==
    /\ registry.pc = "retry"
    /\ registry.status.retry_count <= registry.status.max_retries
    /\ registry' = [registry EXCEPT
                        !.status = update_service_state(@, "failed", <<"error">>, registry.now),
                        !.last = [call |-> "failed", at |-> registry.now,
                                  before |-> registry.status, ran_checker |-> FALSE,
                                  answer |-> "none"]]
    /\ UNCHANGED <<pvars, extraction, tika, discovery, event, ts_init, removal>>

\* set_ready, lines 126-128, as called when the initialization succeeds
SetReadyAfterFailure ==
    /\ registry.pc = "retry"
    /\ registry' = [registry EXCEPT
                        !.status = update_service_state(@, "ready", None, registry.now),
                        !.last = [call |-> "ready", at |-> registry.now,
                                  before |-> registry.status, ran_checker |-> FALSE,
                                  answer |-> "none"]]
    /\ UNCHANGED <<pvars, extraction, tika, discovery, event, ts_init, removal>>

\* check_service_health, lines 139-220; healthy is what the checker would
\* say, recent says that the last success is less than 30 seconds old
HealthCheck(healthy, recent) ==
    /\ registry.pc = "retry"
    /\ registry.status.retry_count <= registry.status.max_retries
    /\ LET status == registry.status
           call == [call |-> "check", at |-> registry.now, before |-> status,
                    ran_checker |-> FALSE, answer |-> "none"]
       IN registry' =
              IF RetryScheduled(status, registry.now)
              THEN [registry EXCEPT !.last = [call EXCEPT !.answer = "retry_scheduled"]]
              ELSE IF status.state = "ready" /\ recent
              THEN [registry EXCEPT !.last = [call EXCEPT !.answer = "healthy"]]
              ELSE IF healthy
              THEN [registry EXCEPT
                        !.status = update_service_state(@, "ready", None, registry.now),
                        !.last = [call EXCEPT !.ran_checker = TRUE, !.answer = "healthy"]]
              ELSE [registry EXCEPT
                        !.status = update_service_state(@, "failed", <<"error">>, registry.now),
                        !.last = [call EXCEPT !.ran_checker = TRUE, !.answer = "unhealthy"]]
    /\ UNCHANGED <<pvars, extraction, tika, discovery, event, ts_init, removal>>

RetryNext ==
    \/ ClockTick
    \/ SetFailed
    \/ SetReadyAfterFailure
    \/ \E healthy, recent \in BOOLEAN : HealthCheck(healthy, recent)

SpecRetry == RetryInit /\ [][RetryNext]_vars

\* the call that has just been made moved the service to the given state
MovedTo(state) ==
    /\ registry.pc = "retry"
    /\ registry.last.call # "none"
    /\ registry.status.state = state
    /\ registry.last.call = "check" => registry.last.ran_checker

\* C33: a transition to FAILED adds one to retry_count and, while retry_count
\* is below max_retries, schedules the next retry min(2^retry_count, 300)
\* seconds later, never more than 300; a health check before that time answers
\* retry_scheduled and does not run the checker; a transition to READY sets
\* retry_count to 0 and clears next_retry and the error message
C33_RetrySchedule ==
    LET status == registry.status
        last == registry.last
    IN /\ MovedTo("failed") =>
              /\ status.retry_count = last.before.retry_count + 1
              /\ status.retry_count < status.max_retries =>
                     /\ status.next_retry # None
                     /\ status.next_retry[1] - last.at =
                            (IF 2 ^ status.retry_count < 300 THEN 2 ^ status.retry_count ELSE 300)
                     /\ status.next_retry[1] - last.at <= 300
       /\ MovedTo("ready") =>
              /\ status.retry_count = 0
              /\ status.next_retry = None
              /\ status.error_message = None
       /\ (/\ registry.pc = "retry" /\ last.call = "check"
           /\ last.before.state = "failed"
           /\ last.before.next_retry # None
           /\ last.at < last.before.next_retry[1]) =>
              (last.answer = "retry_scheduled" /\ ~last.ran_checker /\ status = last.before)

\* the ninth failure in a row of a service that allows ten: the backoff is
\* capped at 300 seconds
C33_Witness ==
    /\ MovedTo("failed")
    /\ registry.status.retry_count = 9
    /\ registry.status.next_retry = <<registry.last.at + 300>>

\* a health check asked one second after the first failure
C33_WitnessRetryScheduled ==
    /\ registry.pc = "retry"
    /\ registry.last.call = "check"
    /\ registry.last.answer = "retry_scheduled"
    /\ registry.last.at = 1
    /\ registry.status.next_retry = <<2>>

(***************************************************************************)
(* Restart, end of crawl and status phase of the crawl manager, checked    *)
(* on the crawl model (SpecCrawl).                                         *)
(***************************************************************************)

\* C34: the stop signals that stop_crawl set on the discoverer and on the
\* indexer do not persist into the next crawl: while a crawl runs and
\* stop_crawl has not been called for it (start_crawl cleared the manager's
\* stop event), the discoverer's and the indexer's stop signals are clear,
\* so the scan thread emits the files and index_file processes them
C34_StopSignalsDoNotPersist ==
    (_running /\ ~_stop_event) => (~discoverer_sync_stop /\ ~indexer_stop_event)

\* C35: whenever a crawl has ended and the manager is no longer running -
\* by completion, by an error or by stop_crawl in any phase - the persisted
\* crawl_job_running is false
C35_EndedCrawlNotPersistedRunning ==
    (n_crawls > 0 /\ ~_running /\ crawl_pc = "none") => ~db.crawl_job_running

\* C37: stop_crawl does not discard pending work: once the stop signal is
\* set, an operation that leaves the dedup queue is handed to the indexer
\* for processing; none is dequeued and counted as failed without it
C37_StopKeepsPendingWork ==
    [][(indexer_stop_event /\ qsize(_items') < qsize(_items)) =>
          \E w \in Workers : w_pc[w] = "pop" /\ w_pc'[w] = "index"]_vars

\* C40: in every status snapshot current_phase is idle if and only if
\* running is false, and while a crawl runs the phase is one of verifying,
\* discovering, indexing or stopping
C40_IdlePhaseIffNotRunning ==
    /\ (GetStatus.current_phase = "idle") <=> ~GetStatus.running
    /\ GetStatus.running =>
          GetStatus.current_phase \in {"verifying", "discovering", "indexing", "stopping"}

\* C39: start_crawl while a crawl is already running changes nothing, also
\* when the call arrives through the /start endpoint: a request handled
\* while the manager is running leaves the counters, the persisted state,
\* the stop signal and the manager's watch paths as they were
C39_RefusedStartChangesNothing ==
    [][(_running /\ boot'.requests > boot.requests) =>
          /\ UNCHANGED mvars
          /\ boot'.watch_paths = boot.watch_paths]_vars

(***************************************************************************)
(* The hand-off of monitor events to the operation queue: each event is    *)
(* handled by its own task running OperationEventHandler.handle_file_event *)
(* (create_watcher_for_crawl, watcher.py lines 259-269), which translates  *)
(* it and awaits _enqueue_operation on a bounded asyncio.Queue; the        *)
(* FileProcessor takes events from a synchronous caller with put_nowait.   *)
(* The events are the ones that reach the translating branches: watchdog   *)
(* events with src_path for a created or a modified file.                  *)
(***************************************************************************)
EnqueueMaxRetries == 3

HandoffPaths == {"/a/f", "/a/g"}

HandoffKinds == {"created", "modified"}

HandoffTasks == 1..MaxEvents

WatchdogEvent(kind) ==
    [cls |-> IF kind = "created" THEN "watchdog.FileCreatedEvent"
             ELSE "watchdog.FileModifiedEvent",
     attrs |-> {"event_type", "src_path", "is_directory"},
     kind |-> kind]

NoTask ==
    [pc |-> "new", path |-> "", translates |-> FALSE, retry_count |-> 0, outcome |-> "none"]

\* handle_file_event, line 202: the finally block, when no other task of
\* the same path is still between lines 153 and 202
Discard(processing, path) == processing \ {path}

\* the watcher is running, the operation queue and the processor's queue
\* hold what earlier events and the crawl left there
HandoffInit ==
    /\ RestIdle
    /\ extraction = Idle /\ tika = Idle /\ discovery = Idle /\ ts_init = Idle
    /\ removal = Idle /\ registry = Idle
    /\ \E there \in BOOLEAN, n \in 0..worker_queue_size, m \in 0..worker_queue_size :
           event = [pc |-> "handoff", exists |-> there, qlen |-> n, fp_qlen |-> m,
                    _processing |-> {}, task |-> [i \in HandoffTasks |-> NoTask]]

\* handle_file_event, lines 138-202, up to its first suspension: an event
\* whose path is being handled returns at line 151; otherwise the path is
\* added to _processing, the event is translated and _enqueue_operation
\* puts the operation at once when the queue has room (lines 213-218) or
\* suspends in queue.put
HandleEventTask(i, path, kind) ==
    /\ event.pc = "handoff"
    /\ event.task[i].pc = "new"
    /\ \A j \in HandoffTasks : j < i => event.task[j].pc # "new"
    /\ LET ops == handle_file_event(WatchdogEvent(kind), event.exists)
           t == [NoTask EXCEPT !.path = path, !.translates = (ops # {})]
       IN event' =
            IF path \in event._processing
            THEN [event EXCEPT !.task[i] = [t EXCEPT !.pc = "done", !.outcome = "skipped"]]
            ELSE IF ops = {}
            THEN [event EXCEPT !.task[i] = [t EXCEPT !.pc = "done", !.outcome = "no_operation"]]
            ELSE IF event.qlen < worker_queue_size
            THEN [event EXCEPT !.qlen = @ + 1,
                               !.task[i] = [t EXCEPT !.pc = "done", !.outcome = "queued"]]
            ELSE [event EXCEPT !._processing = @ \cup {path},
                               !.task[i] = [t EXCEPT !.pc = "put"]]
    /\ UNCHANGED <<pvars, extraction, tika, discovery, ts_init, removal, registry>>

\* _enqueue_operation, lines 213-218: the queue has room again and the
\* suspended put returns
PutReturns(i) ==
    /\ event.task[i].pc = "put"
    /\ event.qlen < worker_queue_size
    /\ event' = [event EXCEPT
                    !.qlen = @ + 1,
                    !._processing = Discard(@, event.task[i].path),
                    !.task[i] = [@ EXCEPT !.pc = "done", !.outcome = "queued"]]
    /\ UNCHANGED <<pvars, extraction, tika, discovery, ts_init, removal, registry>>

\* _enqueue_operation, lines 219-226: the queue stayed full for the 1.0 s
\* of wait_for; the put is tried again after 0.1 s, and after the third
\* timeout the operation is given up
PutTimesOut(i) ==
    /\ event.task[i].pc = "put"
    /\ event.qlen = worker_queue_size
    /\ LET retry_count == event.task[i].retry_count + 1
       IN event' =
            IF retry_count < EnqueueMaxRetries
            THEN [event EXCEPT !.task[i].retry_count = retry_count]
            ELSE [event EXCEPT
                     !._processing = Discard(@, event.task[i].path),
                     !.task[i] = [@ EXCEPT !.pc = "done", !.retry_count = retry_count,
                                           !.outcome = "gave_up"]]
    /\ UNCHANGED <<pvars, extraction, tika, discovery, ts_init, removal, registry>>

\* FileProcessor.enqueue_event, file_processor.py lines 30-48
EnqueueEvent(i, path) ==
    /\ event.pc = "handoff"
    /\ event.task[i].pc = "new"
    /\ \A j \in HandoffTasks : j < i => event.task[j].pc # "new"
    /\ LET t == [NoTask EXCEPT !.path = path, !.translates = TRUE, !.pc = "done"]
       IN event' =
            IF event.fp_qlen < worker_queue_size
            THEN [event EXCEPT !.fp_qlen = @ + 1, !.task[i] = [t EXCEPT !.outcome = "queued"]]
            ELSE [event EXCEPT !.task[i] = [t EXCEPT !.outcome = "dropped"]]
    /\ UNCHANGED <<pvars, extraction, tika, discovery, ts_init, removal, registry>>

\* the consumer of the operation queue takes one operation
TakeOperation ==
    /\ event.pc = "handoff"
    /\ event.qlen > 0
    /\ event' = [event EXCEPT !.qlen = @ - 1]
    /\ UNCHANGED <<pvars, extraction, tika, discovery, ts_init, removal, registry>>

\* FileProcessor._process_loop takes one event
TakeEvent ==
    /\ event.pc = "handoff"
    /\ event.fp_qlen > 0
    /\ event' = [event EXCEPT !.fp_qlen = @ - 1]
    /\ UNCHANGED <<pvars, extraction, tika, discovery, ts_init, removal, registry>>

\* the file appears or disappears on disk
TouchWatched ==
    /\ event.pc = "handoff"
    /\ \E i \in HandoffTasks : event.task[i].pc = "new"
    /\ event' = [event EXCEPT !.exists = ~@]
    /\ UNCHANGED <<pvars, extraction, tika, discovery, ts_init, removal, registry>>

HandoffNext ==
    \/ \E i \in HandoffTasks, path \in HandoffPaths, kind \in HandoffKinds :
           HandleEventTask(i, path, kind)
    \/ \E i \in HandoffTasks : PutReturns(i)
    \/ \E i \in HandoffTasks : PutTimesOut(i)
    \/ \E i \in HandoffTasks, path \in HandoffPaths : EnqueueEvent(i, path)
    \/ TakeOperation
    \/ TakeEvent
    \/ TouchWatched

SpecHandoff == HandoffInit /\ [][HandoffNext]_vars

\* C38: no monitor event is lost in the hand-off: every event that
\* translates to an operation and whose handling has ended was put on the
\* queue, also when the queue stayed full and when another event for the
\* same path was being handled
C38_NoEventLost ==
    \A i \in HandoffTasks :
        (event.task[i].pc = "done" /\ event.task[i].translates) =>
            event.task[i].outcome = "queued"

\* the losses in the watcher, each on its own: an event skipped because its
\* path was being handled, and an operation given up after the third timeout
C38_NoEventSkipped ==
    \A i \in HandoffTasks :
        (event.task[i].pc = "done" /\ event.task[i].translates) =>
            event.task[i].outcome # "skipped"

C38_NoOperationGivenUp ==
    \A i \in HandoffTasks :
        (event.task[i].pc = "done" /\ event.task[i].translates) =>
            event.task[i].outcome # "gave_up"

====
